---- MODULE Spec2Model ----
(***************************************************************************)
(* Project scoping and the Lua task sandbox of the docker CLI fork.        *)
(*                                                                         *)
(* Three state machines share the variables below:                         *)
(*   SpecLoad  - project.Load: FindProjectRoot's upward search, then the   *)
(*               marker script run in a fresh sandbox, then the accessors  *)
(*               ID()/Name() (src/proj/project.go, src/proj/project/init.go)*)
(*   SpecExec  - Project.Exec: chdir into the root, catalog lookup, task   *)
(*               call, deferred chdir back (src/proj/project.go)           *)
(*   Spec      - main(): the command dispatcher (src/unnamed/part_008)     *)
(*               with Sandbox.Exec (src/lua-sandbox/sandbox.go)            *)
(***************************************************************************)
EXTENDS Naturals, Sequences, FiniteSets

VARIABLES
    \* ---- filesystem and process state
    fs,              \* marker status in each ancestor of the start path
    cwd,             \* process working directory (a cleaned absolute path)
    \* ---- project.Load / FindProjectRoot
    rawPath,         \* start path as given (absolute, possibly not clean)
    path,            \* FindProjectRoot's loop variable
    tested,          \* directories handed to isProjectRoot, in order
    lpc,             \* position inside Load
    projectRootPath, \* FindProjectRoot's result ("" in Go = <<>> here, see lpc)
    loadRet,         \* what Load returned
    luaProject,      \* the global `project` value of the project's Lua state
    accessRet,       \* outcome of the last ID()/Name() call
    \* ---- Project.Exec
    epc,             \* position inside Exec
    nExec,           \* Exec calls made so far in this process
    rootDir,         \* Project.RootDirVal
    dirs,            \* directories that exist (os.Chdir succeeds on these)
    getwdOk,         \* whether os.Getwd succeeds
    args,            \* Exec's argument
    luaAtCall,       \* the `project` value when Exec was called
    cwdBefore,       \* working directory when Exec was called
    previousWorkDir, \* chRootDir's result
    cmd,             \* the catalog entry Exec selected, or NoCmd
    found,           \* Exec's first result
    err,             \* Exec's second result
    calls,           \* Lua functions invoked so far, in order
    bodyCwd,         \* working directory seen by the task body, in order
    hostPanic,       \* a Go panic / Lua error escaped into the host
    \* ---- main
    mpc,             \* position inside main
    proj,            \* LoadForWd's result: "nil", "loaded" or "error"
    osArgs,          \* os.Args[1:]
    globals,         \* global environment of the sandbox NewSandbox built
    outcome,         \* dispatcher state
    exitCode,        \* exit status: 0 when main returns, set by os.Exit otherwise
    stderr,          \* messages written to stderr, in order
    builtinRan,      \* the built-in command machinery ran a command
    \* ---- Project.listCommands
    lcpc,            \* position inside listCommands
    lcProject,       \* the global `project` of the Lua state, as a Lua value
    lcKeys,          \* keys of project.tasks the loop has not visited yet
    lcCmds,          \* the local cmds slice
    lcErr,           \* the error listCommands returned
    lcRet,           \* the slice listCommands returned
    \* ---- PopStringParam
    pstack,          \* arguments on the Lua call stack, first argument first
    pBefore,         \* the stack the last PopStringParam call found
    pRet,            \* what the last PopStringParam call returned
    pN,              \* PopStringParam calls made by this Lua function call
    \* ---- CreateSandbox
    sbpc,            \* position inside CreateSandbox / Load
    sbEnv,           \* LState.Env: the globals of the Lua state being built
    sbSandboxEnv,    \* the sandbox_env table resetLuaState holds
    sbKeys,          \* keys of sandbox_env not copied yet
    \* ---- require
    rqpc,            \* position of the importing script
    rqEnv,           \* globals the importing script has set, in its Lua state
    rqEnvBefore,     \* rqEnv when require was called
    rqStack,         \* arguments of the require call
    rqFiles,         \* script files that exist
    rqFile,          \* what the imported file does when it runs
    rqSeen,          \* the globals the imported file found when it started
    rqRet,           \* values require returned to the importer
    rqErr,           \* error require raised in the importer
    \* ---- image identifiers handed to scripts
    impc,            \* the API function that returned, or "call"
    imId,            \* image ID as the engine reports it
    imParent,        \* parent image ID as the engine reports it
    imTable,         \* the identifier fields of the Lua table handed to the script
    \* ---- project labels
    lbpc,            \* outcome of the last label application
    lbProj,          \* the project of the working directory, if any
    lbLabels0,       \* the labels the user gave on the command line
    lbLabels,        \* the Labels map of the create request
    lbN,             \* label applications completed on lbLabels
    \* ---- recent projects
    rpFile,          \* content of .recentProjects.json
    rpLatest,        \* per project id, the timestamp of its latest stored save (0: none)
    rpErr,           \* what the last SaveInRecentProjects call returned
    rpN,             \* SaveInRecentProjects calls that stored the file
    \* ---- project scope of the engine API requests
    scLoadId,        \* the id the marker script declared when the project was loaded
    scId,            \* the value of project.id in the project's Lua state
    scIdRet,         \* what the last Project.ID() call returned, "none" before
    scContainers,    \* labels of the containers of the engine, oldest first
    scUnder,         \* ID() at the request that created each container
    scListed,        \* containers the last container.list() returned
    scListActive,    \* ID() at the last container.list(), "none" before
    scListN,         \* containers the engine held at the last container.list()
    scFatal,         \* log.Fatalln ended the process
    \* ---- docker.silentCmd
    sipc,            \* where the silentCmd call stands: "call", "returned" or "raised"
    siStack,         \* arguments of the silentCmd call
    siOut,           \* what the command wrote to its output stream
    siErrBuf,        \* what the command wrote to its error stream
    siCmdErr,        \* the error cmd.Execute() returned
    siRet,           \* values silentCmd pushed for the script
    siRaise,         \* message of the error silentCmd raised
    \* ---- errors on the sandbox side
    hepc,            \* "task" while the task body runs under Exec, then "returned", then "exited"
    heId,            \* the value of project.id in the Lua state while the body runs
    heCalls,         \* host functions the task body has called
    heFailure,       \* the last failure inside a host function or accessor, "none" without
    heErr,           \* the error Exec returned to the dispatcher
    heExitBy,        \* who ended the process: "none", "dispatcher" or "sandbox"
    heExitCode,      \* the exit status
    \* ---- docker project init
    inpc,            \* where `docker project init` stands: "call", "done" or "panic"
    inMarker,        \* what is at <dir>/dockerproject.lua: nothing, a directory, or a script with its id
    inMarker0,       \* inMarker when the command started
    inStatFails,     \* whether os.Stat of the marker fails other than with not-exist
    inName,          \* the --name option
    inBase,          \* filepath.Base of the target directory
    inRet,           \* the error runInit returned, "nil" for none
    inWrites,        \* calls of ioutil.WriteFile the command made
    \* ---- image.inspect and container.inspect
    ivFn,            \* the host function called: "image.inspect" or "container.inspect"
    ivpc,            \* the script-side reader: "pop", "open", "more", "returned" or "raised"
    ivStack,         \* arguments of the call still on the Lua stack
    ivRefs,          \* opts.refs: the identifiers popped
    ivW,             \* the inspect goroutine: "idle", "refs", "flush", "copy", "newline" or "done"
    ivWi,            \* index in refs of the identifier the goroutine resolves next
    ivElems,         \* elements the inspector has collected
    ivPipe,          \* bytes of the goroutine's pending Write the reader has not read
    ivBuf,           \* bytes the decoder has read and not consumed
    ivDecoded,       \* the images / containers slice
    ivRet,           \* the array pushed for the script
    ivErr            \* message of the error raised in the script, "nil" for none

fsVars   == <<fs, cwd>>
loadVars == <<rawPath, path, tested, lpc, projectRootPath, loadRet, luaProject, accessRet>>
execVars == <<epc, nExec, rootDir, dirs, getwdOk, args, luaAtCall, cwdBefore, previousWorkDir,
              cmd, found, err, calls, bodyCwd, hostPanic>>
mainVars == <<mpc, proj, osArgs, globals, outcome, exitCode, stderr, builtinRan>>
catVars  == <<lcpc, lcProject, lcKeys, lcCmds, lcErr, lcRet>>
popVars  == <<pstack, pBefore, pRet, pN>>
sbVars   == <<sbpc, sbEnv, sbSandboxEnv, sbKeys>>
rqVars   == <<rqpc, rqEnv, rqEnvBefore, rqStack, rqFiles, rqFile, rqSeen, rqRet, rqErr>>
imVars   == <<impc, imId, imParent, imTable>>
lbVars   == <<lbpc, lbProj, lbLabels0, lbLabels, lbN>>
rpVars   == <<rpFile, rpLatest, rpErr, rpN>>
libVars  == <<catVars, popVars, sbVars, rqVars, imVars, lbVars, rpVars>>
scVars   == <<scLoadId, scId, scIdRet, scContainers, scUnder, scListed, scListActive, scListN,
              scFatal>>
siVars   == <<sipc, siStack, siOut, siErrBuf, siCmdErr, siRet, siRaise>>
heVars   == <<hepc, heId, heCalls, heFailure, heErr, heExitBy, heExitCode>>
inVars   == <<inpc, inMarker, inMarker0, inStatFails, inName, inBase, inRet, inWrites>>
ivVars   == <<ivFn, ivpc, ivStack, ivRefs, ivW, ivWi, ivElems, ivPipe, ivBuf, ivDecoded, ivRet, ivErr>>
apiVars  == <<scVars, siVars, heVars, inVars, ivVars>>
vars     == <<fsVars, loadVars, execVars, mainVars, libVars, apiVars>>
\* what the actions of one group leave alone
baseVars == <<fsVars, loadVars, execVars, mainVars, libVars>>
scFrame  == <<baseVars, siVars, heVars, inVars, ivVars>>
siFrame  == <<baseVars, scVars, heVars, inVars, ivVars>>
heFrame  == <<baseVars, scVars, siVars, inVars, ivVars>>
inFrame  == <<baseVars, scVars, siVars, heVars, ivVars>>
ivFrame  == <<baseVars, scVars, siVars, heVars, inVars>>

----------------------------------------------------------------------------
(* Bounds *)

\* longest start path, in components
MaxRawLen == 3
\* most positional arguments after the task name
MaxArgs == 1
\* most Exec calls on one loaded project
MaxExecs == 2
\* longest array part of a task declaration
MaxCells == 4
\* most arguments a script passes to a host function
MaxParams == 3
\* most PopStringParam calls a host function makes
MaxPops == 4
\* longest image identifier, in characters
MaxIdLen == 3
\* most label applications on one Labels map
MaxApply == 3
\* latest Unix time the clock shows
MaxTime == 3
\* most SaveInRecentProjects calls that store the file
MaxSaves == 3
\* most containers the engine holds
MaxContainers == 4
\* longest captured stream, in characters
MaxStreamLen == 2
\* most host functions one task body calls
MaxHostCalls == 3
\* longest project name, in characters
MaxNameLen == 2
\* most identifiers one inspect call is given
MaxRefs == 3

----------------------------------------------------------------------------
(* Paths.  An absolute path is the sequence of its components; <<>> is "/". *)

Comp    == {"a", "b"}
RawComp == Comp \cup {".", ".."}

SeqsUpTo(S, n) == UNION {[1..k -> S] : k \in 0..n}

RawPaths == SeqsUpTo(RawComp, MaxRawLen)

RECURSIVE CleanAcc(_, _)
CleanAcc(raw, acc) ==
    IF raw = <<>> THEN acc
    ELSE LET c == Head(raw) IN
         CleanAcc(Tail(raw),
                  IF c = "." THEN acc
                  ELSE IF c = ".."
                       THEN (IF acc = <<>> THEN <<>> ELSE SubSeq(acc, 1, Len(acc) - 1))
                       ELSE Append(acc, c))

\* filepath.Clean on an absolute path: drops ".", resolves "..", "/.." is "/"
Clean(raw) == CleanAcc(raw, <<>>)

\* filepath.Dir on a cleaned absolute path; Dir("/") = "/"
Dir(p) == IF p = <<>> THEN <<>> ELSE SubSeq(p, 1, Len(p) - 1)

\* the directory itself and all its ancestors up to "/"
Ancestors(p) == {SubSeq(p, 1, k) : k \in 0..Len(p)}

----------------------------------------------------------------------------
(* Project Locator: src/proj/project/init.go *)

\* os.Stat(<dir>/dockerproject.lua): no such file, a regular file, a
\* directory, or a failure other than not-exist (EACCES, ENOTDIR, ...)
StatResult == {"absent", "file", "dir", "staterr"}

\* isProjectRoot without the IsDir test
isProjectRoot_noDirCheck(st) ==
    CASE st = "absent"  -> "no"
      [] st = "staterr" -> "panic"
      [] OTHER          -> "yes"

\* isProjectRoot: os.IsNotExist(err) -> false; otherwise fileInfo.IsDir() is
\* called, which dereferences a nil FileInfo when Stat failed otherwise
isProjectRoot(st) ==
    CASE st = "absent"  -> "no"
      [] st = "staterr" -> "panic"
      [] st = "dir"     -> "no"
      [] st = "file"    -> "yes"

----------------------------------------------------------------------------
(* Lua values at the host boundary: src/proj/luaUtils.go, src/proj/project.go *)

\* dynamic type of a Lua value read back from the project table
LuaKinds == {"nil", "string", "number"}

\* names a project may declare as tasks
TaskNames == {"build", "compose", "push"}

\* TaskNames in the order of Go's string comparison (ByName.Less)
NameOrder == <<"build", "compose", "push">>

\* The global `project` after the marker script ran: a table with fields id,
\* name and tasks, or some other value.  tasks.ok is FALSE when project.tasks
\* is missing, not a table, or fails the shape rules of listCommands.
LuaProjects ==
    {[kind |-> "table", id |-> i, name |-> n, tasks |-> [ok |-> TRUE, names |-> S]] :
        i \in LuaKinds, n \in LuaKinds, S \in SUBSET TaskNames}
    \cup
    {[kind |-> "table", id |-> i, name |-> n, tasks |-> [ok |-> FALSE, names |-> {}]] :
        i \in LuaKinds, n \in LuaKinds}
    \cup
    {[kind |-> "other", id |-> "nil", name |-> "nil", tasks |-> [ok |-> FALSE, names |-> {}]]}

\* the table Load installs before running the marker: only `root` is set
PreloadedProject ==
    [kind |-> "table", id |-> "nil", name |-> "nil", tasks |-> [ok |-> FALSE, names |-> {}]]

\* iface.Command: the task's name and the *lua.LFunction bound to it
Command(n) == [Name |-> n, Function |-> <<"task", n>>]
NoCmd      == [Name |-> "", Function |-> <<"none", "">>]

\* getProjectTable: the global must be a table
getProjectTable(lp) == IF lp.kind = "table" THEN "nil" ELSE "ErrLuaValueNotATable"

\* listCommands: error, or the catalog sorted by name
listCommands(lp) ==
    IF getProjectTable(lp) # "nil"
    THEN [err |-> getProjectTable(lp), cmds |-> <<>>]
    ELSE IF ~lp.tasks.ok
         THEN [err |-> "error in Lua tasks definition", cmds |-> <<>>]
         ELSE [err |-> "nil",
               cmds |-> [i \in 1..Cardinality(lp.tasks.names) |->
                            Command(SelectSeq(NameOrder, LAMBDA n : n \in lp.tasks.names)[i])]]

\* getProjectInfo: both fields must be Lua strings; id is tested first
getProjectInfo(lp) ==
    IF getProjectTable(lp) # "nil" THEN getProjectTable(lp)
    ELSE IF lp.id # "string" THEN "project id is not a string"
    ELSE IF lp.name # "string" THEN "project name is not a string"
    ELSE "nil"

\* CommandExists that answers yes for every name
CommandExists_always(lp, name) ==
    [err |-> listCommands(lp).err, exists |-> listCommands(lp).err = "nil"]

\* CommandExists: (false, err) when the catalog does not parse, else whether a
\* catalog entry carries the name
CommandExists(lp, name) ==
    LET lc == listCommands(lp) IN
    [err    |-> lc.err,
     exists |-> lc.err = "nil" /\ \E i \in 1..Len(lc.cmds) : lc.cmds[i].Name = name]

----------------------------------------------------------------------------
(* Lua tables and the task declarations of project.tasks:                  *)
(* src/proj/project.go 148-278, src/proj/luaUtils.go                       *)

\* Lua values.  A table has an array part (positive integer keys; LNil marks
\* a hole), string keys, and the kinds of its other keys (a number key such
\* as 0 or 1.5, a boolean key), each of them holding a non-nil value.
LNil    == [t |-> "nil", v |-> ""]
LFn(x)  == [t |-> "function", v |-> x]
LStr(x) == [t |-> "string", v |-> x]
LNum    == [t |-> "number", v |-> "7"]
LTable(a, s, o) == [t |-> "table", arr |-> a, str |-> s, oth |-> o]

\* the table with no string keys
NoKeys == [k \in {} |-> LNil]

\* LTable.Len: index of the last non-nil element of the array part
TableLen(lt) ==
    IF \E i \in 1..Len(lt.arr) : lt.arr[i] # LNil
    THEN CHOOSE i \in 1..Len(lt.arr) :
            lt.arr[i] # LNil /\ \A j \in (i + 1)..Len(lt.arr) : lt.arr[j] = LNil
    ELSE 0

RawGetInt(lt, i)    == IF i \in 1..Len(lt.arr) THEN lt.arr[i] ELSE LNil
RawGetString(lt, k) == IF k \in DOMAIN lt.str THEN lt.str[k] ELSE LNil

\* the keys LTable.ForEach visits: every key with a non-nil value
ForEachKeys(lt) ==
    {[t |-> "number", v |-> "index"] : i \in {j \in 1..Len(lt.arr) : lt.arr[j] # LNil}}
    \cup {LStr(k) : k \in DOMAIN lt.str}
    \cup {[t |-> o, v |-> "key"] : o \in lt.oth}

\* number of callbacks of LTable.ForEach
KeyCount(lt) ==
    Cardinality({j \in 1..Len(lt.arr) : lt.arr[j] # LNil})
    + Cardinality(DOMAIN lt.str) + Cardinality(lt.oth)

luaValueToString(lv)   == [ok |-> lv.t = "string", s |-> IF lv.t = "string" THEN lv.v ELSE ""]
luaValueToFunction(lv) == lv.t = "function"
luaValueToTable(lv)    == lv.t = "table"

\* luaTableIsArray that only looks at the length
luaTableIsArray_lenOnly(lt) == TableLen(lt) # 0

\* luaTableIsArray: every key is a number and there are Len() of them
luaTableIsArray(lt) ==
    /\ DOMAIN lt.str = {} /\ lt.oth \subseteq {"number"}
    /\ KeyCount(lt) = TableLen(lt)

luaTableIsMap(lt) == TableLen(lt) = 0

\* iface.Command with its four fields
TaskCommand(n, s, d, f) ==
    [Name |-> n, ShortDescription |-> s, Description |-> d, Function |-> f]

\* errors of listCommands: the message and the task name put in parentheses
NoErr           == [msg |-> "nil", task |-> ""]
TaskErr(m, k)   == [msg |-> m, task |-> k]
TaskOk(c)       == [err |-> NoErr, add |-> <<c>>]
TaskFail(m, k)  == [err |-> TaskErr(m, k), add |-> <<>>]

\* the array branch with a 2-cell array that leaves Description empty
arrayTask_shortOnly(k, lt) ==
    LET n  == TableLen(lt)
        c1 == RawGetInt(lt, 1)
        c2 == luaValueToString(RawGetInt(lt, 2))
        c3 == luaValueToString(RawGetInt(lt, 3))
    IN CASE n = 1 -> IF luaValueToFunction(c1) THEN TaskOk(TaskCommand(k, "", "", c1))
                     ELSE TaskFail("one-cell array must contain a function", k)
         [] n = 2 -> IF luaValueToFunction(c1) /\ c2.ok
                     THEN TaskOk(TaskCommand(k, c2.s, "", c1))
                     ELSE TaskFail("2-cell array must contain a function and a string", k)
         [] n = 3 -> IF luaValueToFunction(c1) /\ c2.ok /\ c3.ok
                     THEN TaskOk(TaskCommand(k, c2.s, c3.s, c1))
                     ELSE TaskFail("3-cell array must contain a function and 2 strings", k)
         [] OTHER -> TaskFail("tasks defined as arrays can only have 1, 2 or 3 elements", k)

\* listCommands 191-238: a task declared as an array
arrayTask(k, lt) ==
    LET n  == TableLen(lt)
        c1 == RawGetInt(lt, 1)
        c2 == luaValueToString(RawGetInt(lt, 2))
        c3 == luaValueToString(RawGetInt(lt, 3))
    IN CASE n = 1 -> IF luaValueToFunction(c1) THEN TaskOk(TaskCommand(k, "", "", c1))
                     ELSE TaskFail("one-cell array must contain a function", k)
         [] n = 2 -> IF luaValueToFunction(c1) /\ c2.ok
                     THEN TaskOk(TaskCommand(k, c2.s, c2.s, c1))
                     ELSE TaskFail("2-cell array must contain a function and a string", k)
         [] n = 3 -> IF luaValueToFunction(c1) /\ c2.ok /\ c3.ok
                     THEN TaskOk(TaskCommand(k, c2.s, c3.s, c1))
                     ELSE TaskFail("3-cell array must contain a function and 2 strings", k)
         [] OTHER -> TaskFail("tasks defined as arrays can only have 1, 2 or 3 elements", k)

\* listCommands 240-266: a task declared as a map with func, short and desc
mapTask(k, lt) ==
    LET funcVal  == RawGetString(lt, "func")
        shortVal == luaValueToString(RawGetString(lt, "short"))
        descVal  == luaValueToString(RawGetString(lt, "desc"))
        shortStr == IF shortVal.ok THEN shortVal.s ELSE ""
        descStr  == IF descVal.ok THEN descVal.s ELSE ""
    IN IF luaValueToFunction(funcVal)
       THEN TaskOk(TaskCommand(k,
                IF shortStr = "" /\ descStr # "" THEN descStr ELSE shortStr,
                IF shortStr # "" /\ descStr = "" THEN shortStr ELSE descStr,
                funcVal))
       ELSE TaskFail("\"func\" field of a task must be a function", k)

\* the loop body that passes over keys that are not strings
listCommandsEntry_skipKeys(tasksTable, key) ==
    LET kStr == luaValueToString(key)
        v    == RawGetString(tasksTable, kStr.s)
    IN IF ~kStr.ok THEN [err |-> NoErr, add |-> <<>>]
       ELSE IF luaValueToFunction(v) THEN TaskOk(TaskCommand(kStr.s, "", "", v))
       ELSE IF luaValueToTable(v)
            THEN IF luaTableIsArray(v) THEN arrayTask(kStr.s, v)
                 ELSE IF luaTableIsMap(v) THEN mapTask(kStr.s, v)
                 ELSE TaskFail("definition accepts a pure \"map\" OR a pure \"array\"", kStr.s)
       ELSE TaskFail("definition can only be a Lua function or a Lua table", kStr.s)

\* listCommands 176-272: the body of the loop over the keys
listCommandsEntry(tasksTable, key) ==
    LET kStr == luaValueToString(key)
        v    == RawGetString(tasksTable, kStr.s)
    IN IF ~kStr.ok THEN TaskFail("task names must be strings", "")
       ELSE IF luaValueToFunction(v) THEN TaskOk(TaskCommand(kStr.s, "", "", v))
       ELSE IF luaValueToTable(v)
            THEN IF luaTableIsArray(v) THEN arrayTask(kStr.s, v)
                 ELSE IF luaTableIsMap(v) THEN mapTask(kStr.s, v)
                 ELSE TaskFail("definition accepts a pure \"map\" OR a pure \"array\"", kStr.s)
       ELSE TaskFail("definition can only be a Lua function or a Lua table", kStr.s)

\* sort.Sort(ByName(cmds)); the names are distinct, being keys of one table
SortByName(cmds) ==
    LET ordered == SelectSeq(NameOrder, LAMBDA n : \E j \in DOMAIN cmds : cmds[j].Name = n)
    IN [i \in 1..Len(ordered) |-> cmds[CHOOSE j \in DOMAIN cmds : cmds[j].Name = ordered[i]]]

\* getTableFromTable(projectTable, "tasks")
getTableFromTable(lt, name) ==
    IF RawGetString(lt, name).t # "table" THEN "lua value is not a table" ELSE "nil"

\* ---- the declarations the catalog is checked on

Cells == {LFn("f"), LStr(""), LStr("s"), LStr("l")}

ArrayDecls == {LTable(a, NoKeys, {}) : a \in SeqsUpTo(Cells, MaxCells)}

KeyedDecls ==
    {LTable(<<>>, m, {}) : m \in UNION {[D -> Cells] : D \in SUBSET {"func", "short", "desc"}}}

\* array entries next to keyed entries, a hole, number keys outside the array
MixedDecls ==
    { LTable(<<LFn("f")>>, [k \in {"short"} |-> LStr("s")], {}),
      LTable(<<LFn("f"), LStr("s")>>, [k \in {"func"} |-> LFn("f")], {}),
      LTable(<<LFn("f"), LNil, LStr("s")>>, NoKeys, {}),
      LTable(<<>>, NoKeys, {"number"}),
      LTable(<<LFn("f")>>, NoKeys, {"number"}),
      LTable(<<>>, [k \in {"func"} |-> LFn("f")], {"boolean"}) }

ScalarDecls == {LFn("f"), LFn("g"), LNum, LStr("s")}

TaskDecls == ArrayDecls \cup KeyedDecls \cup MixedDecls \cup ScalarDecls

\* declarations of a second task
OtherDecls ==
    { LFn("g"),
      LTable(<<LFn("g"), LStr("s")>>, NoKeys, {}),
      LTable(<<LFn("g"), LStr("s"), LStr("l"), LStr("s")>>, NoKeys, {}),
      LNum }

\* values of project.tasks
TasksValues ==
    {LTable(a, s, o) :
        a \in {<<>>, <<LFn("f")>>},
        s \in {NoKeys} \cup [{"build"} -> TaskDecls]
              \cup {[k \in {"build", "push"} |-> IF k = "build" THEN d ELSE e] :
                        d \in TaskDecls, e \in OtherDecls},
        o \in {{}, {"number"}, {"boolean"}}}
    \cup {LNil, LStr("s")}

\* values of the global `project`
CatalogProjects ==
    {LTable(<<>>, [k \in {"tasks"} |-> tv], {}) : tv \in TasksValues \ {LNil}}
    \cup {LTable(<<>>, NoKeys, {}), LNum}

----------------------------------------------------------------------------
(* Argument extraction: src/unnamed/part_023 19-58 *)

LBool == [t |-> "boolean", v |-> "true"]

\* values a script can pass to a host function
ParamVals == {LNil, LStr(""), LStr("a"), LNum, LBool}

\* what popStringParam returns, with the stack it leaves behind
PopResult(s, f, e, st) == [str |-> s, found |-> f, err |-> e, stack |-> st]

\* popStringParam that takes an explicit nil for a missing argument
popStringParam_nilIsMissing(stack) ==
    LET top == Len(stack) IN
    IF top > 0
    THEN LET lv     == stack[1]
             keeper == [j \in 1..(top - 1) |-> stack[j + 1]]
         IN IF lv = LNil THEN PopResult("", FALSE, "nil", keeper)
            ELSE IF lv.t = "string" THEN PopResult(lv.v, TRUE, "nil", keeper)
            ELSE PopResult("", TRUE, "parameter is not a string", keeper)
    ELSE PopResult("", FALSE, "nil", stack)

\* popStringParam that takes the argument on top of the stack, the last one
popStringParam_fromTop(stack) ==
    LET top == Len(stack) IN
    IF top > 0
    THEN LET lv     == stack[top]
             keeper == [j \in 1..(top - 1) |-> stack[j]]
         IN IF lv = LNil THEN PopResult("", TRUE, "parameter is not a string", keeper)
            ELSE IF lv.t = "string" THEN PopResult(lv.v, TRUE, "nil", keeper)
            ELSE PopResult("", TRUE, "parameter is not a string", keeper)
    ELSE PopResult("", FALSE, "nil", stack)

\* popStringParam: lv is the first argument (index -top), the others are
\* popped and pushed back in order
popStringParam(stack) ==
    LET top == Len(stack) IN
    IF top > 0
    THEN LET lv     == stack[1]
             keeper == [j \in 1..(top - 1) |-> stack[j + 1]]
         IN IF lv = LNil THEN PopResult("", TRUE, "parameter is not a string", keeper)
            ELSE IF lv.t = "string" THEN PopResult(lv.v, TRUE, "nil", keeper)
            ELSE PopResult("", TRUE, "parameter is not a string", keeper)
    ELSE PopResult("", FALSE, "nil", stack)

----------------------------------------------------------------------------
(* Sandbox construction: src/unnamed/part_025 28-65 and 245-312,           *)
(* src/proj/project.go 430-487                                             *)

\* a global: a function, or a table with the names of its members
EnvFn      == [t |-> "function", members |-> {}]
EnvTbl(S)  == [t |-> "table", members |-> S]
EmptyEnv   == [n \in {} |-> EnvFn]

\* env with name bound to v (RawSetString)
EnvSet(env, name, v) ==
    [n \in (DOMAIN env) \cup {name} |-> IF n = name THEN v ELSE env[n]]

\* the globals of lua.NewState(): the base library and the standard modules
DefaultFunctions ==
    {"assert", "collectgarbage", "dofile", "error", "getfenv", "getmetatable", "load",
     "loadfile", "loadstring", "next", "pcall", "print", "rawequal", "rawget", "rawset",
     "select", "setfenv", "setmetatable", "tonumber", "tostring", "type", "unpack",
     "xpcall", "module", "require", "newproxy", "pairs", "ipairs"}

DefaultTables ==
    [n \in {"_G", "package", "table", "io", "os", "string", "math", "debug", "coroutine"} |->
        CASE n = "table"  -> {"concat", "getn", "insert", "maxn", "remove", "sort"}
          [] n = "io"     -> {"close", "lines", "open", "popen", "read", "write"}
          [] n = "os"     -> {"clock", "date", "difftime", "execute", "exit", "getenv",
                              "remove", "rename", "setenv", "setlocale", "time", "tmpname"}
          [] n = "string" -> {"byte", "char", "dump", "find", "format", "gmatch", "gsub",
                              "len", "lower", "match", "rep", "reverse", "sub", "upper"}
          [] OTHER        -> {}]

DefaultEnv ==
    [n \in DefaultFunctions \cup DOMAIN DefaultTables |->
        IF n \in DefaultFunctions THEN EnvFn ELSE EnvTbl(DefaultTables[n])]

\* the names the defaultLuaSandbox script puts in sandbox_env
SandboxEnvFunctions ==
    {"tostring", "tonumber", "pairs", "ipairs", "unpack", "error", "assert", "pcall"}

SandboxEnvTables ==
    [n \in {"string", "table"} |->
        IF n = "string"
        THEN {"byte", "char", "find", "format", "gmatch", "gsub", "len", "lower", "match",
              "rep", "reverse", "sub", "upper"}
        ELSE {"insert", "maxn", "remove", "sort", "getn", "concat"}]

\* sandbox_env as the script evaluates it in env: a field whose right-hand
\* side is nil is not set
EvalSandboxEnv(env) ==
    [n \in {m \in SandboxEnvFunctions \cup DOMAIN SandboxEnvTables : m \in DOMAIN env} |->
        IF n \in SandboxEnvFunctions THEN env[n]
        ELSE EnvTbl(SandboxEnvTables[n] \cap env[n].members)]

\* a reset that leaves the environment as it is
ClearEnv_keep(env) == env

\* resetLuaState 297-299: every key of Env is set to nil
ClearEnv(env) == EmptyEnv

\* CreateSandbox 47-58: print, the os table and json
InstallHostBindings(env) ==
    EnvSet(EnvSet(EnvSet(env, "print", EnvFn),
                  "os", EnvTbl({"username", "home", "setEnv", "getEnv"})),
           "json", EnvTbl({"encode", "decode"}))

\* populateLuaState, then Load 342-344: require, docker and project
populateLuaState(env) ==
    EnvSet(EnvSet(env, "require", EnvFn),
           "docker", EnvTbl({"cmd", "silentCmd", "container", "image", "network",
                             "secret", "service", "volume"}))

----------------------------------------------------------------------------
(* require: src/proj/project.go 390-429 and 844-886 *)

\* globals a script may set, and the values it gives them
UserGlobals == {"x", "start"}
UserVals    == {"nil", "importer", "imported"}

\* the user globals of a Lua state; a fresh sandbox has none
FreshEnv == [g \in UserGlobals |-> "nil"]

\* an imported file: the global assignments of its top level, the values its
\* chunk returns, and whether it raises
ImportedFiles ==
    [assigns : [UserGlobals -> {"keep", "imported"}],
     returns : {<<>>, <<[t |-> "table", env |-> FreshEnv]>>},
     raises  : BOOLEAN]

\* env after the file's top level ran in it
RunFile(env, file) ==
    [g \in UserGlobals |-> IF file.assigns[g] = "keep" THEN env[g] ELSE file.assigns[g]]

\* a file name is the sequence of its dot-separated parts
FileNames == {<<"tunnel">>, <<"tunnel", "lua">>, <<"tunnel", "txt">>}

\* filepath.Ext, without the dot
Ext(name) == IF Len(name) > 1 THEN name[Len(name)] ELSE ""

\* if filepath.Ext(filename) != ".lua" { filename += ".lua" }
WithLuaExt(name) == IF Ext(name) # "lua" THEN Append(name, "lua") ELSE name

----------------------------------------------------------------------------
(* Image identifiers: src/proj/dockerImage.go, src/unnamed/part_009 *)

\* an identifier is the sequence of its characters
IdChars   == {"s", ":", "h"}
IdStrings == SeqsUpTo(IdChars, MaxIdLen)

\* strings.Contains(s, ":")
ContainsColon(s) == \E i \in 1..Len(s) : s[i] = ":"

\* strings.SplitN(s, ":", 2): the parts before and after the first colon, or
\* s alone when it has no colon
SplitN2(s) ==
    IF ContainsColon(s)
    THEN LET i == CHOOSE k \in 1..Len(s) : s[k] = ":" /\ \A j \in 1..(k - 1) : s[j] # ":"
         IN <<SubSeq(s, 1, i - 1), SubSeq(s, i + 1, Len(s))>>
    ELSE <<s>>

\* removeImageIDHeader
removeImageIDHeader(imageID) ==
    IF ContainsColon(imageID) /\ Len(SplitN2(imageID)) = 2 THEN SplitN2(imageID)[2]
    ELSE imageID

\* dockerContainerList 179-183: the same, written inline
containerListImageID(imageID) ==
    IF Len(SplitN2(imageID)) > 1 THEN SplitN2(imageID)[2] ELSE imageID

----------------------------------------------------------------------------
(* Project labels: src/unnamed/part_000 53-78, src/lua-sandbox/os.go       *)
(* 1117-1129                                                               *)

\* a label key is a prefix followed by the rest of its text
LabelKey(prefix, rest) == <<prefix, rest>>

\* labels of the command line: an ordinary one, and one spelled like a marker
UserLabelKeys == {LabelKey("", "env"), LabelKey("docker.project.id:", "p1")}
UserLabels ==
    UNION {[D -> {"", "v"}] : D \in SUBSET UserLabelKeys}

\* m[k] = v on a Go map
MapSet(m, k, v) == [x \in (DOMAIN m) \cup {k} |-> IF x = k THEN v ELSE m[x]]

\* the two assignments with the name label left out
AddProjectLabels_idOnly(labels, id, name) ==
    MapSet(labels, LabelKey("docker.project.id:", id), "")

\* Labels["docker.project.id:"+id] = ""; Labels["docker.project.name:"+name] = ""
AddProjectLabels(labels, id, name) ==
    MapSet(MapSet(labels, LabelKey("docker.project.id:", id), ""),
           LabelKey("docker.project.name:", name), "")

\* the project of the working directory: none, or one with the `project`
\* table its script left and the id and name read from it
NoProject == [active |-> FALSE, lua |-> PreloadedProject, id |-> "", name |-> ""]
LabelProjects ==
    {NoProject} \cup
    {[active |-> TRUE, lua |-> lp, id |-> i, name |-> "n1"] :
        lp \in {l \in LuaProjects : l.kind = "table" /\ l.tasks.ok /\ l.tasks.names = {}},
        i \in {"p1", "p2"}}

----------------------------------------------------------------------------
(* Recent projects: src/unnamed/part_013 *)

ProjectIds == {"p1", "p2", "p3"}

\* recentProject: the id and the timestamp
RecentProject(id, t) == [IDVal |-> id, Timestamp |-> t]

\* the file: missing, not JSON, or the JSON array of a list
FileAbsent  == [kind |-> "absent", list |-> <<>>]
FileCorrupt == [kind |-> "corrupt", list |-> <<>>]
FileJSON(l) == [kind |-> "json", list |-> l]

\* getRecentProjects: the list of the file, or an empty list when the file
\* cannot be read or parsed
getRecentProjects(file, readOk) ==
    IF readOk /\ file.kind = "json" THEN file.list ELSE <<>>

\* the loop of SaveInRecentProjects that always appends
UpsertRecent_append(rProjects, rp) == Append(rProjects, rp)

\* SaveInRecentProjects 51-61: the first entry with the id is replaced, or
\* the project is appended
UpsertRecent(rProjects, rp) ==
    IF \E i \in 1..Len(rProjects) : rProjects[i].IDVal = rp.IDVal
    THEN LET i == CHOOSE k \in 1..Len(rProjects) :
                    /\ rProjects[k].IDVal = rp.IDVal
                    /\ \A j \in 1..(k - 1) : rProjects[j].IDVal # rp.IDVal
         IN [rProjects EXCEPT ![i] = rp]
    ELSE Append(rProjects, rp)

\* recentProjects.Less
RecentLess(a, b) == a.Timestamp > b.Timestamp

\* the outcomes of sort.Sort(rProjects): the arrangements of the same
\* entries in which no entry is Less than the one before it
SortedArrangements(l) ==
    {p \in [1..Len(l) -> {l[i] : i \in 1..Len(l)}] :
        /\ \A e \in {l[i] : i \in 1..Len(l)} :
              Cardinality({i \in 1..Len(l) : p[i] = e})
                 = Cardinality({i \in 1..Len(l) : l[i] = e})
        /\ \A i \in 1..(Len(l) - 1) : ~RecentLess(p[i + 1], p[i])}

\* lists without two entries of one id, of the given ids
RECURSIVE DupFreeLists(_)
DupFreeLists(ids) ==
    {<<>>} \cup
    UNION {{<<RecentProject(id, t)>> \o r : t \in 1..MaxTime, r \in DupFreeLists(ids \ {id})} :
              id \in ids}

----------------------------------------------------------------------------
(* Project scope: src/proj/project.go 50-56, src/proj/project/scoping.go,
   src/dockertests.lua 119-210 *)

\* the project ids of the scope test
ScopeIds == {"A", "B"}

\* values a script can leave in project.id
ScopeIdValues == {LStr(i) : i \in ScopeIds} \cup {LNil, LNum}

\* Project.ID(): the string in project.id now, or log.Fatalln
ProjectID(idVal) ==
    IF luaValueToString(idVal).ok THEN luaValueToString(idVal).s ELSE "fatal"

\* a scoper built once, from the id of the project at load
NewScoperId_atLoad(loadId, idVal) == loadId

\* StartInMemoryProxy 36-38: the routes build a scoper for a request from
\* proj.ID() at that request
NewScoperId(loadId, idVal) == ProjectID(idVal)

\* the label by which the proxy marks and selects the resources of a project
ScopeLabel(id) == LabelKey("docker.project.id:", id)

\* the containers the scoped list request returns
ScopedList(containers, id) ==
    {i \in 1..Len(containers) : ScopeLabel(id) \in containers[i]}

----------------------------------------------------------------------------
(* docker.silentCmd: src/unnamed/part_014 53-99 *)

\* text of a stream or a message, as a sequence of characters
StreamChars == {" ", "a", "b"}
StreamTexts == SeqsUpTo(StreamChars, MaxStreamLen)

\* strings.TrimSpace
RECURSIVE TrimLeft(_)
TrimLeft(s) == IF s # <<>> /\ Head(s) = " " THEN TrimLeft(Tail(s)) ELSE s
RECURSIVE TrimRight(_)
TrimRight(s) ==
    IF s # <<>> /\ s[Len(s)] = " " THEN TrimRight(SubSeq(s, 1, Len(s) - 1)) ELSE s
TrimSpace(s) == TrimRight(TrimLeft(s))

\* the error of cmd.Execute(): nil, or an error with its message
NoCmdErr      == [isErr |-> FALSE, msg |-> <<>>]
CmdErr(m)     == [isErr |-> TRUE, msg |-> m]
CmdErrors     == {NoCmdErr} \cup {CmdErr(m) : m \in {<<"a">>, <<"b">>, <<"b", "a">>}}

\* the argument strings of the call: a command line shellwords.Parse splits,
\* and one with an unclosed quote
SilentArgs == {LStr("ps"), LStr("run 'x"), LNum}
ShellwordsParseOk(str) == str # "run 'x"

\* what dockerSilentCmd hands back: the values pushed, or the error raised
SilentResult(pc, ret, raise) == [pc |-> pc, ret |-> ret, raise |-> raise]

\* dockerSilentCmd from the captured streams on: 83-98
SilentCmdFinish(out, errbuf, cerr) ==
    IF cerr.isErr
    THEN SilentResult("raised", <<>>, cerr.msg)
    ELSE LET outStr == TrimSpace(out)
             errStr == TrimSpace(errbuf)
         IN IF errStr # <<>>
            THEN SilentResult("returned", <<outStr, errStr>>, <<>>)
            ELSE SilentResult("returned", <<outStr>>, <<>>)

----------------------------------------------------------------------------
(* Failures inside host functions: src/unnamed/part_014 106-140,
   src/unnamed/part_009 100-150, src/proj/project.go 50-63 *)

\* argument lists of a list function: none, flags pflag knows, a flag it
\* does not know, an unclosed quote, a number
ListArgStacks ==
    {<<>>, <<LStr("")>>, <<LStr("-q")>>, <<LStr("--bogus")>>, <<LStr("run 'x")>>, <<LNum>>}

\* flags.Parse on the flags the list functions declare
FlagsParseOk(str) == str \in {"", "-q"}

\* how a host function ends: it returns values, raises a Lua error, or the
\* process exits inside it
HostOutcome(kind, what) == [kind |-> kind, what |-> what]

\* flags := pflag.NewFlagSet(name, pflag.ExitOnError); flags.Parse(args):
\* on a flag it cannot parse pflag prints the error and calls os.Exit(2)
ListFlagsParse(str) ==
    IF FlagsParseOk(str) THEN HostOutcome("ok", "") ELSE HostOutcome("exit", "2")

\* dockerVolumeList / dockerContainerList up to the engine request
ListFunction(stack, clientOk) ==
    LET r == popStringParam(stack) IN
    IF r.err # "nil" THEN HostOutcome("raise", r.err)
    ELSE IF ~ShellwordsParseOk(r.str) THEN HostOutcome("raise", "invalid command line string")
    ELSE IF ListFlagsParse(r.str).kind # "ok" THEN ListFlagsParse(r.str)
    ELSE IF ~clientOk THEN HostOutcome("raise", "engine error")
    ELSE HostOutcome("ok", "")

\* Project.ID() / Project.Name() called on the host side of a request
AccessorOutcome(idVal) ==
    IF ProjectID(idVal) = "fatal" THEN HostOutcome("exit", "1") ELSE HostOutcome("ok", "")

----------------------------------------------------------------------------
(* docker project init: src/unnamed/part_001 41-77, src/proj/project/init.go 13-27 *)

\* what is at <dir>/dockerproject.lua
NoMarker        == [kind |-> "absent", id |-> ""]
MarkerDir       == [kind |-> "dir", id |-> ""]
MarkerFile(id)  == [kind |-> "file", id |-> id]
Markers         == {NoMarker, MarkerDir, MarkerFile("old")}

\* os.Stat of the marker, as isProjectRoot sees it
MarkerStat(marker, statFails) == IF statFails THEN "staterr" ELSE marker.kind

\* project names, as sequences of characters
NameChars   == {"a", "9", ".", "-", " "}
InitNames   == SeqsUpTo(NameChars, MaxNameLen)
\* filepath.Base never returns an empty string; of the root it is "/"
BaseNames   == (InitNames \ {<<>>}) \cup {<<"/">>}

\* regexp.MatchString("^[a-zA-Z0-9\\.-]+$", name)
NameMatches(name) ==
    /\ name # <<>>
    /\ \A i \in 1..Len(name) : name[i] \in {"a", "9", ".", "-"}

\* runInit 56-59: an empty name becomes the directory's base name
EffectiveName(name, base) == IF name = <<>> THEN base ELSE name

\* what Init does: it panics, returns an error, or writes the marker
InitResult(pc, ret, marker, writes) ==
    [pc |-> pc, ret |-> ret, marker |-> marker, writes |-> writes]

\* project.Init(dir, name)
Init(marker, statFails, writeOk) ==
    CASE isProjectRoot(MarkerStat(marker, statFails)) = "panic" ->
            InitResult("panic", "nil", marker, 0)
      [] isProjectRoot(MarkerStat(marker, statFails)) = "yes" ->
            InitResult("done", "target directory already is the root of a Docker project",
                       marker, 0)
      [] OTHER ->
            IF marker.kind = "dir" \/ ~writeOk
            THEN InitResult("done", "write error", marker, 1)
            ELSE InitResult("done", "nil", MarkerFile("new"), 1)

----------------------------------------------------------------------------
(* image.inspect / container.inspect: src/proj/dockerImage.go 18-91,
   src/unnamed/part_009 20-93 *)

\* identifiers a script passes: two the engine resolves, one it does not,
\* and a value that is not a string
InspectArgs == {LStr("a"), LStr("b"), LStr("x"), LNum}
Resolves(ref) == ref \in {"a", "b"}

\* the bytes on the pipe, one JSON token or the line end at a time
TokOpen    == [k |-> "[", id |-> ""]
TokClose   == [k |-> "]", id |-> ""]
TokNewline == [k |-> "nl", id |-> ""]
TokElem(r) == [k |-> "elem", id |-> r]

\* the 30-41 loop: PopStringParam until no argument is left or one is not a
\* string
RECURSIVE PopRefs(_, _)
PopRefs(stack, refs) ==
    LET r == popStringParam(stack) IN
    IF r.err # "nil" THEN [err |-> r.err, refs |-> refs, stack |-> r.stack]
    ELSE IF ~r.found THEN [err |-> "nil", refs |-> refs, stack |-> r.stack]
    ELSE PopRefs(r.stack, Append(refs, r.str))

\* IndentedInspector.Flush: the array of the collected elements, then a
\* line end in a Write of its own; "[]\n" in one Write when nothing was
\* collected
FlushArray(elems) ==
    IF elems = <<>> THEN <<TokOpen, TokClose, TokNewline>>
    ELSE <<TokOpen>> \o [i \in 1..Len(elems) |-> TokElem(elems[i])] \o <<TokClose>>

\* json.Decoder skips white space in front of a token
RECURSIVE SkipSpace(_)
SkipSpace(buf) ==
    IF buf # <<>> /\ Head(buf) = TokNewline THEN SkipSpace(Tail(buf)) ELSE buf

\* ImageInspectToLuaTable / ContainerJSONBaseToLuaTable of a decoded value
InspectTable(id) == [t |-> "table", id |-> id]

\* 83-87: one table is appended for each decoded value
ResultArray(decoded) == [i \in 1..Len(decoded) |-> InspectTable(decoded[i])]

\* a reader that reads on until the pipe is closed
ReaderAfterClose_untilEOF == "eof"

\* 76-90: after the closing bracket the table is built and pushed
ReaderAfterClose == "returned"

----------------------------------------------------------------------------
(* Idle values: the parts of the state a specification does not exercise *)

LoadIdle ==
    /\ rawPath = <<>> /\ path = <<>> /\ tested = <<>> /\ lpc = "idle"
    /\ projectRootPath = <<>> /\ loadRet = "none" /\ accessRet = "none"
    /\ fs = [d \in {<<>>} |-> "absent"]

ExecIdle ==
    /\ epc = "idle" /\ nExec = 0 /\ rootDir = <<>> /\ dirs = {<<>>} /\ getwdOk = TRUE
    /\ args = <<>> /\ cwdBefore = <<>> /\ previousWorkDir = <<>> /\ cmd = NoCmd
    /\ found = FALSE /\ err = "nil" /\ luaAtCall = PreloadedProject

MainIdle ==
    /\ mpc = "idle" /\ proj = "nil" /\ osArgs = <<>>
    /\ globals = [n \in {} |-> "nil"]
    /\ outcome = "Unresolved" /\ exitCode = 0 /\ stderr = <<>>
    /\ builtinRan = FALSE

NoCalls == calls = <<>> /\ bodyCwd = <<>> /\ hostPanic = FALSE

CatIdle ==
    /\ lcpc = "idle" /\ lcProject = LNil /\ lcKeys = {} /\ lcCmds = <<>>
    /\ lcErr = NoErr /\ lcRet = [isNil |-> TRUE, cmds |-> <<>>]

PopIdle ==
    /\ pstack = <<>> /\ pBefore = <<>> /\ pN = 0
    /\ pRet = [str |-> "", found |-> FALSE, err |-> "nil"]

SbIdle ==
    /\ sbpc = "idle" /\ sbEnv = EmptyEnv /\ sbSandboxEnv = EmptyEnv /\ sbKeys = {}

RqIdle ==
    /\ rqpc = "idle" /\ rqEnv = FreshEnv /\ rqEnvBefore = FreshEnv /\ rqStack = <<>>
    /\ rqFiles = {} /\ rqSeen = FreshEnv /\ rqRet = <<>> /\ rqErr = "nil"
    /\ rqFile = [assigns |-> [g \in UserGlobals |-> "keep"], returns |-> <<>>, raises |-> FALSE]

NoIds == [id |-> <<>>, parentId |-> <<>>, parent |-> <<>>, imageId |-> <<>>, image |-> <<>>]

ImIdle == impc = "idle" /\ imId = <<>> /\ imParent = <<>> /\ imTable = NoIds

NoLabels == [k \in {} |-> ""]

LbIdle ==
    /\ lbpc = "idle" /\ lbProj = NoProject /\ lbLabels0 = NoLabels /\ lbLabels = NoLabels
    /\ lbN = 0

RpIdle ==
    /\ rpFile = FileAbsent /\ rpLatest = [i \in ProjectIds |-> 0] /\ rpErr = "nil" /\ rpN = 0

LibIdle == CatIdle /\ PopIdle /\ SbIdle /\ RqIdle /\ ImIdle /\ LbIdle /\ RpIdle

ScIdle ==
    /\ scLoadId = "A" /\ scId = LStr("A") /\ scIdRet = "none"
    /\ scContainers = <<>> /\ scUnder = <<>> /\ scListed = {} /\ scListActive = "none"
    /\ scListN = 0
    /\ scFatal = FALSE

SiIdle ==
    /\ sipc = "idle" /\ siStack = <<>> /\ siOut = <<>> /\ siErrBuf = <<>>
    /\ siCmdErr = NoCmdErr /\ siRet = <<>> /\ siRaise = <<>>

HeIdle ==
    /\ hepc = "idle" /\ heId = LStr("A") /\ heCalls = 0 /\ heFailure = "none"
    /\ heErr = "nil" /\ heExitBy = "none" /\ heExitCode = 0

InIdle ==
    /\ inpc = "idle" /\ inMarker = NoMarker /\ inMarker0 = NoMarker /\ inStatFails = FALSE
    /\ inName = <<>> /\ inBase = <<"a">> /\ inRet = "nil" /\ inWrites = 0

IvIdle ==
    /\ ivFn = "image.inspect" /\ ivpc = "idle" /\ ivStack = <<>> /\ ivRefs = <<>>
    /\ ivW = "idle" /\ ivWi = 1 /\ ivElems = <<>> /\ ivPipe = <<>> /\ ivBuf = <<>>
    /\ ivDecoded = <<>> /\ ivRet = <<>> /\ ivErr = "nil"

ApiIdle == ScIdle /\ SiIdle /\ HeIdle /\ InIdle /\ IvIdle

BaseIdle ==
    /\ luaProject = PreloadedProject /\ cwd = <<>>
    /\ LoadIdle /\ ExecIdle /\ MainIdle /\ NoCalls /\ LibIdle
ScOthersIdle == BaseIdle /\ SiIdle /\ HeIdle /\ InIdle /\ IvIdle
SiOthersIdle == BaseIdle /\ ScIdle /\ HeIdle /\ InIdle /\ IvIdle
HeOthersIdle == BaseIdle /\ ScIdle /\ SiIdle /\ InIdle /\ IvIdle
InOthersIdle == BaseIdle /\ ScIdle /\ SiIdle /\ HeIdle /\ IvIdle
IvOthersIdle == BaseIdle /\ ScIdle /\ SiIdle /\ HeIdle /\ InIdle

----------------------------------------------------------------------------
(* project.Load: src/proj/project.go 304-362, with FindProjectRoot *)

\* LoadForWd: the start path is the working directory as os.Getwd reports it
InitLoad ==
    /\ rawPath \in RawPaths
    /\ fs \in [Ancestors(Clean(rawPath)) -> StatResult]
    /\ cwd = Clean(rawPath)
    /\ path = rawPath
    /\ tested = <<>>
    /\ lpc = "call"
    /\ projectRootPath = <<>>
    /\ loadRet = "none"
    /\ luaProject = PreloadedProject
    /\ accessRet = "none"
    /\ ExecIdle /\ MainIdle /\ NoCalls /\ LibIdle /\ ApiIdle

\* FindProjectRoot, entry: path = filepath.Clean(path)
FindProjectRootEnter ==
    /\ lpc = "call"
    /\ path' = Clean(rawPath)
    /\ lpc' = "search"
    /\ UNCHANGED <<fsVars, rawPath, tested, projectRootPath, loadRet, luaProject, accessRet,
                   execVars, mainVars, libVars, apiVars>>

\* FindProjectRoot, one iteration of the for loop
FindProjectRoot ==
    /\ lpc = "search"
    /\ tested' = Append(tested, path)
    /\ LET r == isProjectRoot(fs[path]) IN
       CASE r = "yes" ->
                /\ projectRootPath' = path
                /\ lpc' = "found"
                /\ UNCHANGED <<path, loadRet>>
         [] r = "panic" ->
                \* nil FileInfo dereferenced: the process dies inside Load
                /\ lpc' = "returned"
                /\ loadRet' = "panic"
                /\ UNCHANGED <<path, projectRootPath>>
         [] OTHER ->
                IF path = Dir(path)
                THEN /\ lpc' = "notfound"      \* break after / has been tested
                     /\ UNCHANGED <<path, projectRootPath, loadRet>>
                ELSE /\ path' = Dir(path)
                     /\ UNCHANGED <<lpc, projectRootPath, loadRet>>
    /\ UNCHANGED <<fsVars, rawPath, luaProject, accessRet, execVars, mainVars, libVars, apiVars>>

\* Load when FindProjectRoot returned an error: nil, nil
LoadNotInProject ==
    /\ lpc = "notfound"
    /\ lpc' = "returned"
    /\ loadRet' = "nil_nil"
    /\ UNCHANGED <<fsVars, rawPath, path, tested, projectRootPath, luaProject, accessRet,
                   execVars, mainVars, libVars, apiVars>>

\* Load when a root was found: sandbox, chdir into the root, run the marker
\* script, check the catalog, chdir back (deferred).  The working directory
\* is the same before and after.
LoadProject ==
    /\ lpc = "found"
    /\ lpc' = "returned"
    /\ \/ \* chRootDir fails (Getwd or Chdir), or the marker vanished before
          \* DoFile's Stat, or the script raised
          /\ loadRet' = "error"
          /\ UNCHANGED luaProject
       \/ \* the script ran to completion and left some `project` value
          \E lp \in LuaProjects :
             /\ luaProject' = lp
             /\ loadRet' = IF listCommands(lp).err = "nil" THEN "project" ELSE "error"
    /\ UNCHANGED <<fsVars, rawPath, path, tested, projectRootPath, accessRet,
                   execVars, mainVars, libVars, apiVars>>

\* Project.ID() / Project.Name() on the returned project: getProjectInfo, and
\* log.Fatalln on error
ProjectAccessor ==
    /\ lpc = "returned"
    /\ loadRet = "project"
    /\ accessRet = "none"
    /\ accessRet' = IF getProjectInfo(luaProject) = "nil" THEN "ok" ELSE "fatal"
    /\ UNCHANGED <<fsVars, rawPath, path, tested, lpc, projectRootPath, loadRet, luaProject,
                   execVars, mainVars, libVars, apiVars>>

NextLoad ==
    \/ FindProjectRootEnter
    \/ FindProjectRoot
    \/ LoadNotInProject
    \/ LoadProject
    \/ ProjectAccessor

SpecLoad == InitLoad /\ [][NextLoad]_vars

----------------------------------------------------------------------------
(* Project.Exec: src/proj/project.go 82-144 *)

\* an argument is the sequence of its characters
ArgVals == {<<"x">>, <<"x", " ", "\"">>, <<"x", "\t", "q">>}

\* args: empty, or a task name followed by positional arguments
ArgLists == {<<>>} \cup {<<n>> \o r : n \in TaskNames, r \in SeqsUpTo(ArgVals, MaxArgs)}

ExecDirs == {<<>>, <<"a">>, <<"a", "b">>, <<"b">>}

\* what a task body may do to the Lua state it runs in
BodyEffects == {"keep", "breakTasks"}

ApplyEffect(lp, e) ==
    IF e = "breakTasks" THEN [lp EXCEPT !.tasks = [ok |-> FALSE, names |-> {}]] ELSE lp

\* a project as Load returns it: the catalog parsed
LoadedProjects ==
    {lp \in LuaProjects : listCommands(lp).err = "nil" /\ lp.id = "string" /\ lp.name = "string"}

\* the loop of Exec that never matches
LookupCommand_first(cmds, name) ==
    IF Len(cmds) > 0 THEN cmds[1] ELSE NoCmd

\* the loop over cmds in Exec: the first entry whose Name is args[0]
LookupCommand(cmds, name) ==
    IF \E i \in 1..Len(cmds) : cmds[i].Name = name
    THEN cmds[CHOOSE i \in 1..Len(cmds) :
                /\ cmds[i].Name = name
                /\ \A j \in 1..(i - 1) : cmds[j].Name # name]
    ELSE NoCmd

\* CallByParam without Protect: a raised error unwinds into the host
CallByParam_unprotected(body) ==
    IF body = "raise" THEN [err |-> "nil", panic |-> TRUE]
                      ELSE [err |-> "nil", panic |-> FALSE]

\* LState.CallByParam with Protect: true: a raised error comes back as err
CallByParam(body) ==
    IF body = "raise" THEN [err |-> "script error", panic |-> FALSE]
                      ELSE [err |-> "nil", panic |-> FALSE]

\* Exec without the deferred chdir
DeferredChdir_missing(prev, cur) == cur

\* defer os.Chdir(previousWorkDir)
DeferredChdir(prev, cur) == prev

\* strings.Contains(arg, " ")
ContainsSpace(arg) == \E i \in 1..Len(arg) : arg[i] = " "

RECURSIVE EscapeQuotes(_)
\* strings.Replace(arg, "\"", "\\\"", -1)
EscapeQuotes(arg) ==
    IF arg = <<>> THEN <<>>
    ELSE (IF Head(arg) = "\"" THEN <<"\\", "\"">> ELSE <<Head(arg)>>) \o EscapeQuotes(Tail(arg))

\* the argument as appended to argsTbl
QuoteArg(arg) ==
    IF ContainsSpace(arg) THEN <<"\"">> \o EscapeQuotes(arg) \o <<"\"">> ELSE arg

\* argsTbl built from args[1:]
ArgsTbl(a) == [i \in 1..(Len(a) - 1) |-> QuoteArg(a[i + 1])]

InitExec ==
    /\ luaProject \in LoadedProjects
    /\ rootDir = <<"a">>
    /\ cwd \in ExecDirs
    /\ dirs \in {S \in SUBSET ExecDirs : cwd \in S /\ \A d \in S : Dir(d) \in S}
    /\ getwdOk \in BOOLEAN
    /\ epc = "idle" /\ nExec = 0
    /\ args = <<>> /\ cwdBefore = cwd /\ previousWorkDir = <<>> /\ cmd = NoCmd
    /\ found = FALSE /\ err = "nil" /\ luaAtCall = luaProject
    /\ LoadIdle /\ MainIdle /\ NoCalls /\ LibIdle /\ ApiIdle

\* Exec, up to and including chRootDir
ExecEnter ==
    /\ epc \in {"idle", "returned"}
    /\ nExec < MaxExecs
    /\ nExec' = nExec + 1
    /\ \E a \in ArgLists :
        /\ args' = a
        /\ luaAtCall' = luaProject
        /\ cwdBefore' = cwd
        /\ found' = FALSE
        /\ cmd' = NoCmd
        /\ calls' = <<>> /\ bodyCwd' = <<>>
        /\ IF a = <<>>
           THEN /\ err' = "at least one argument required (task name)"
                /\ epc' = "returned"
                /\ UNCHANGED <<cwd, previousWorkDir>>
           ELSE IF ~getwdOk
           THEN /\ err' = "getwd failed"
                /\ epc' = "returned"
                /\ previousWorkDir' = <<>>
                /\ UNCHANGED cwd
           ELSE IF rootDir \notin dirs
           THEN /\ err' = "chdir failed"
                /\ epc' = "returned"
                /\ previousWorkDir' = cwd
                /\ UNCHANGED cwd
           ELSE /\ err' = "nil"
                /\ epc' = "lookup"
                /\ previousWorkDir' = cwd
                /\ cwd' = rootDir
    /\ UNCHANGED <<fs, loadVars, rootDir, dirs, getwdOk, hostPanic, mainVars, libVars, apiVars>>

\* Exec: listCommands and the search for args[0]
ExecLookup ==
    /\ epc = "lookup"
    /\ LET lc == listCommands(luaProject)
           c  == LookupCommand(lc.cmds, args[1])
       IN IF lc.err # "nil"
          THEN /\ err' = lc.err /\ epc' = "deferred" /\ UNCHANGED <<found, cmd>>
          ELSE IF c = NoCmd
          THEN /\ err' = "nil" /\ epc' = "deferred" /\ UNCHANGED <<found, cmd>>
          ELSE /\ found' = TRUE /\ cmd' = c /\ epc' = "call" /\ UNCHANGED err
    /\ UNCHANGED <<fsVars, loadVars, nExec, rootDir, dirs, getwdOk, args, luaAtCall,
                   cwdBefore, previousWorkDir, calls, bodyCwd, hostPanic, mainVars, libVars, apiVars>>

\* Exec: the task function is called with argsTbl; its body runs in the root
ExecInvoke ==
    /\ epc = "call"
    /\ \E body \in {"ok", "raise"}, e \in BodyEffects :
        /\ calls' = Append(calls, [fn |-> cmd.Function, argsTbl |-> ArgsTbl(args), body |-> body])
        /\ bodyCwd' = Append(bodyCwd, cwd)
        /\ luaProject' = ApplyEffect(luaProject, e)
        /\ err' = CallByParam(body).err
        /\ hostPanic' = (hostPanic \/ CallByParam(body).panic)
    /\ epc' = "deferred"
    /\ UNCHANGED <<fsVars, rawPath, path, tested, lpc, projectRootPath, loadRet, accessRet,
                   nExec, rootDir, dirs, getwdOk, args, luaAtCall, cwdBefore,
                   previousWorkDir, cmd, found, mainVars, libVars, apiVars>>

\* Exec returns: the deferred os.Chdir(previousWorkDir) runs on every path
\* that got past chRootDir
ExecReturn ==
    /\ epc = "deferred"
    /\ cwd' = DeferredChdir(previousWorkDir, cwd)
    /\ epc' = "returned"
    /\ UNCHANGED <<fs, loadVars, nExec, rootDir, dirs, getwdOk, args, luaAtCall,
                   cwdBefore, previousWorkDir, cmd, found, err, calls, bodyCwd, hostPanic,
                   mainVars, libVars, apiVars>>

NextExec ==
    \/ ExecEnter
    \/ ExecLookup
    \/ ExecInvoke
    \/ ExecReturn

SpecExec == InitExec /\ [][NextExec]_vars

----------------------------------------------------------------------------
(* Command Dispatcher: main(), src/unnamed/part_008 176-279 *)

\* names of cmd.Commands(): the built-in commands of the outer CLI
Builtins == {"build", "push", "ps"}

\* first positional argument: the task names, a built-in no project declares,
\* and a name nobody knows
CmdNames == TaskNames \cup {"ps", "bogus"}

\* os.Args[1:]
OsArgLists == {<<>>} \cup {<<n>> \o r : n \in CmdNames, r \in SeqsUpTo(ArgVals, MaxArgs)}

CommandsAllowedToBeOverridden ==
    <<"build", "deploy", "export", "logs", "restart", "run", "start", "stats", "stop">>

\* an allow-list test that lets every name through
IsCommandOverrideAllowed_all(c) == TRUE

\* IsCommandOverrideAllowed: membership in CommandsAllowedToBeOverridden
IsCommandOverrideAllowed(c) ==
    \E i \in 1..Len(CommandsAllowedToBeOverridden) : CommandsAllowedToBeOverridden[i] = c

\* the message main prints when an override is refused
OverrideMessage(c) ==
    [msg |-> "can't be overridden", cmd |-> c, allowed |-> CommandsAllowedToBeOverridden]

\* value of a global in the sandbox NewSandbox built from the project scripts
GlobalKinds == {"nil", "function", "other"}

\* projects main can hold after LoadForWd: the catalog parsed, id not checked
MainProjects ==
    {lp \in LuaProjects : listCommands(lp).err = "nil" /\ lp.name = "string"}

\* Sandbox.Exec (src/lua-sandbox/sandbox.go 69-118) up to the call: looks the
\* name up among the sandbox globals
SandboxExecLookup(g, name) ==
    CASE g[name] = "nil"      -> [found |-> FALSE, err |-> "nil"]
      [] g[name] = "function" -> [found |-> TRUE,  err |-> "nil"]
      [] OTHER                -> [found |-> FALSE, err |-> "is not a function"]

InitMain ==
    /\ proj \in {"nil", "loaded", "error"}
    /\ luaProject \in IF proj = "loaded" THEN MainProjects ELSE {PreloadedProject}
    /\ osArgs \in OsArgLists
    /\ rootDir = <<"a">>
    /\ cwd \in {<<"a">>, <<"a", "b">>}
    /\ dirs = ExecDirs
    /\ getwdOk \in BOOLEAN
    /\ mpc = "start"
    /\ globals = [n \in {} |-> "nil"]
    /\ outcome = "Unresolved" /\ exitCode = 0 /\ stderr = <<>>
    /\ builtinRan = FALSE
    /\ epc = "idle" /\ nExec = 0
    /\ args = <<>> /\ cwdBefore = cwd /\ previousWorkDir = <<>> /\ cmd = NoCmd
    /\ found = FALSE /\ err = "nil" /\ luaAtCall = luaProject
    /\ LoadIdle /\ NoCalls /\ LibIdle /\ ApiIdle

\* main 195-200: LoadForWd; an error is printed and main returns
MainLoadForWd ==
    /\ mpc = "start"
    /\ IF proj = "error"
       THEN /\ stderr' = Append(stderr, [msg |-> "load error"])
            /\ outcome' = "LoadError"
            /\ exitCode' = 0
            /\ mpc' = "exited"
       ELSE /\ mpc' = IF proj = "loaded" THEN "save" ELSE "dispatch"
            /\ UNCHANGED <<stderr, outcome, exitCode>>
    /\ UNCHANGED <<fsVars, loadVars, execVars, proj, osArgs, globals, builtinRan, libVars, apiVars>>

\* main 202-207: SaveInRecentProjects; logrus.Fatalln when it returns an error
MainSaveInRecentProjects ==
    /\ mpc = "save"
    /\ \E saveOk \in BOOLEAN :
        IF ~saveOk
        THEN /\ outcome' = "Fatal"
             /\ exitCode' = 1
             /\ stderr' = Append(stderr, [msg |-> "fatal"])
             /\ mpc' = "exited"
        ELSE /\ mpc' = "dispatch"
             /\ UNCHANGED <<outcome, exitCode, stderr>>
    /\ UNCHANGED <<fsVars, loadVars, execVars, proj, osArgs, globals, builtinRan, libVars, apiVars>>

\* main 211-237: existence check and override allow-list
MainDispatch ==
    /\ mpc = "dispatch"
    /\ IF proj = "loaded" /\ Len(osArgs) > 0
       THEN LET cmdName == osArgs[1]
                ce      == CommandExists(luaProject, cmdName)
            IN IF ce.err # "nil"
               THEN /\ stderr' = Append(stderr, [msg |-> ce.err])
                    /\ outcome' = "Fatal"
                    /\ exitCode' = 1
                    /\ mpc' = "exited"
               ELSE IF ce.exists
               THEN IF cmdName \in Builtins /\ ~IsCommandOverrideAllowed(cmdName)
                    THEN /\ stderr' = Append(stderr, OverrideMessage(cmdName))
                         /\ outcome' = "OverrideRejected"
                         /\ exitCode' = 1
                         /\ mpc' = "exited"
                    ELSE /\ mpc' = "sandbox"
                         /\ UNCHANGED <<stderr, outcome, exitCode>>
               ELSE /\ mpc' = "execute"
                    /\ UNCHANGED <<stderr, outcome, exitCode>>
       ELSE /\ mpc' = "execute"
            /\ UNCHANGED <<stderr, outcome, exitCode>>
    /\ UNCHANGED <<fsVars, loadVars, execVars, proj, osArgs, globals, builtinRan, libVars, apiVars>>

\* main 239-256: NewSandbox, then Sandbox.Exec(cmdName, os.Args[2:]...), which
\* chdirs into the root, calls the global function and chdirs back
MainSandboxExec ==
    /\ mpc = "sandbox"
    /\ \/ \* NewSandbox fails (a project script does not load)
          /\ stderr' = Append(stderr, [msg |-> "sandbox error"])
          /\ outcome' = "Fatal"
          /\ exitCode' = 1
          /\ mpc' = "exited"
          /\ UNCHANGED <<globals, calls, bodyCwd, args>>
       \/ \E v \in GlobalKinds, body \in {"ok", "raise"} :
            LET g == [n \in {osArgs[1]} |-> v]
                r == SandboxExecLookup(g, osArgs[1])
            IN /\ globals' = g
               /\ args' = osArgs
               /\ IF ~r.found
                  THEN \* found = false: err is dropped, control falls through
                       /\ mpc' = "execute"
                       /\ UNCHANGED <<stderr, outcome, exitCode, calls, bodyCwd>>
                  ELSE IF ~getwdOk
                  THEN /\ stderr' = Append(stderr, [msg |-> "getwd failed"])
                       /\ outcome' = "ProjectTask"
                       /\ exitCode' = 1
                       /\ mpc' = "exited"
                       /\ UNCHANGED <<calls, bodyCwd>>
                  ELSE /\ calls' = Append(calls, [fn |-> <<"global", osArgs[1]>>,
                                                  argsTbl |-> ArgsTbl(osArgs),
                                                  body |-> body])
                       /\ bodyCwd' = Append(bodyCwd, rootDir)
                       /\ outcome' = "ProjectTask"
                       /\ mpc' = "exited"
                       /\ IF CallByParam(body).err # "nil"
                          THEN /\ stderr' = Append(stderr, [msg |-> CallByParam(body).err])
                               /\ exitCode' = 1
                          ELSE /\ exitCode' = 0
                               /\ UNCHANGED stderr
    /\ UNCHANGED <<fsVars, loadVars, epc, nExec, rootDir, dirs, getwdOk, luaAtCall, cwdBefore,
                   previousWorkDir, cmd, found, err, hostPanic, proj, osArgs, builtinRan, libVars, apiVars>>

\* main 264-278: cmd.Execute(), the outer CLI's own command machinery.  An
\* unknown first argument fails the root command's Args check (noArgs).
MainExecute ==
    /\ mpc = "execute"
    /\ mpc' = "exited"
    /\ IF Len(osArgs) = 0
       THEN /\ outcome' = "Help"
            /\ exitCode' = 0
            /\ UNCHANGED <<stderr, builtinRan>>
       ELSE IF osArgs[1] \in Builtins
       THEN /\ outcome' = "BuiltinOnly"
            /\ builtinRan' = TRUE
            /\ \E status \in {0, 1} :
                /\ exitCode' = status
                /\ stderr' = IF status = 0 THEN stderr
                             ELSE Append(stderr, [msg |-> "command failed"])
       ELSE /\ outcome' = "NotFound"
            /\ exitCode' = 1
            /\ stderr' = Append(stderr, [msg |-> "is not a docker command", cmd |-> osArgs[1]])
            /\ UNCHANGED builtinRan
    /\ UNCHANGED <<fsVars, loadVars, execVars, proj, osArgs, globals, libVars, apiVars>>

Next ==
    \/ MainLoadForWd
    \/ MainSaveInRecentProjects
    \/ MainDispatch
    \/ MainSandboxExec
    \/ MainExecute

Spec == InitMain /\ [][Next]_vars

----------------------------------------------------------------------------
(* Project.listCommands on a full project.tasks table:                     *)
(* src/proj/project.go 148-278                                             *)

InitCatalog ==
    /\ lcProject \in CatalogProjects
    /\ lcpc = "call"
    /\ lcKeys = {} /\ lcCmds = <<>>
    /\ lcErr = NoErr /\ lcRet = [isNil |-> TRUE, cmds |-> <<>>]
    /\ luaProject = PreloadedProject /\ cwd = <<>>
    /\ LoadIdle /\ ExecIdle /\ MainIdle /\ NoCalls /\ PopIdle /\ SbIdle /\ RqIdle /\ ImIdle /\ LbIdle /\ RpIdle /\ ApiIdle

\* listCommands 149-173: the project table, its tasks table, the test that
\* tasks has no array part, and the collection of the keys
ListCommandsEnter ==
    /\ lcpc = "call"
    /\ lcCmds' = <<>>
    /\ IF ~luaValueToTable(lcProject)
       THEN /\ lcErr' = TaskErr("ErrLuaValueNotATable", "")
            /\ lcRet' = [isNil |-> TRUE, cmds |-> <<>>]
            /\ lcpc' = "returned"
            /\ UNCHANGED lcKeys
       ELSE IF getTableFromTable(lcProject, "tasks") # "nil"
       THEN /\ lcErr' = TaskErr(getTableFromTable(lcProject, "tasks"), "")
            /\ lcRet' = [isNil |-> TRUE, cmds |-> <<>>]
            /\ lcpc' = "returned"
            /\ UNCHANGED lcKeys
       ELSE IF TableLen(RawGetString(lcProject, "tasks")) # 0
       THEN /\ lcErr' = TaskErr("can't accept arrays, only pure maps", "")
            /\ lcRet' = [isNil |-> TRUE, cmds |-> <<>>]
            /\ lcpc' = "returned"
            /\ UNCHANGED lcKeys
       ELSE /\ lcKeys' = ForEachKeys(RawGetString(lcProject, "tasks"))
            /\ lcpc' = "loop"
            /\ UNCHANGED <<lcErr, lcRet>>
    /\ UNCHANGED <<lcProject, fsVars, loadVars, execVars, mainVars, popVars, sbVars, rqVars, imVars, lbVars, rpVars, apiVars>>

\* listCommands 175-273: one iteration of the loop; ForEach hands the keys
\* over in an order the table implementation chooses
ListCommandsKey ==
    /\ lcpc = "loop"
    /\ \E k \in lcKeys :
        LET r == listCommandsEntry(RawGetString(lcProject, "tasks"), k) IN
        /\ lcKeys' = lcKeys \ {k}
        /\ IF r.err # NoErr
           THEN /\ lcErr' = r.err
                /\ lcRet' = [isNil |-> TRUE, cmds |-> <<>>]
                /\ lcpc' = "returned"
                /\ UNCHANGED lcCmds
           ELSE /\ lcCmds' = lcCmds \o r.add
                /\ UNCHANGED <<lcErr, lcRet, lcpc>>
    /\ UNCHANGED <<lcProject, fsVars, loadVars, execVars, mainVars, popVars, sbVars, rqVars, imVars, lbVars, rpVars, apiVars>>

\* listCommands 275-277: sort by name and return
ListCommandsSort ==
    /\ lcpc = "loop"
    /\ lcKeys = {}
    /\ lcRet' = [isNil |-> FALSE, cmds |-> SortByName(lcCmds)]
    /\ lcErr' = NoErr
    /\ lcpc' = "returned"
    /\ UNCHANGED <<lcProject, lcKeys, lcCmds, fsVars, loadVars, execVars, mainVars, popVars, sbVars, rqVars, imVars, lbVars, rpVars, apiVars>>

NextCatalog ==
    \/ ListCommandsEnter
    \/ ListCommandsKey
    \/ ListCommandsSort

SpecCatalog == InitCatalog /\ [][NextCatalog]_vars

----------------------------------------------------------------------------
(* A host function reading its arguments: src/unnamed/part_023,            *)
(* src/unnamed/part_014 106-125                                            *)

\* the script called a host function with some arguments
InitParams ==
    /\ pstack \in SeqsUpTo(ParamVals, MaxParams)
    /\ pBefore = <<>> /\ pN = 0
    /\ pRet = [str |-> "", found |-> FALSE, err |-> "nil"]
    /\ luaProject = PreloadedProject /\ cwd = <<>>
    /\ LoadIdle /\ ExecIdle /\ MainIdle /\ NoCalls /\ CatIdle /\ SbIdle /\ RqIdle /\ ImIdle /\ LbIdle /\ RpIdle /\ ApiIdle

\* PopStringParam(L)
PopStringParam ==
    /\ pN < MaxPops
    /\ pN' = pN + 1
    /\ pBefore' = pstack
    /\ LET r == popStringParam(pstack) IN
        /\ pRet' = [str |-> r.str, found |-> r.found, err |-> r.err]
        /\ pstack' = r.stack
    /\ UNCHANGED <<fsVars, loadVars, execVars, mainVars, catVars, sbVars, rqVars, imVars, lbVars, rpVars, apiVars>>

NextParams == PopStringParam

SpecParams == InitParams /\ [][NextParams]_vars

----------------------------------------------------------------------------
(* CreateSandbox and the project loader's additions:                       *)
(* src/unnamed/part_025 28-65, 245-312; src/proj/project.go 313-344        *)

\* CreateSandbox 32: lua.NewState()
InitSandbox ==
    /\ sbpc = "reset"
    /\ sbEnv = DefaultEnv
    /\ sbSandboxEnv = EmptyEnv /\ sbKeys = {}
    /\ luaProject = PreloadedProject /\ cwd = <<>>
    /\ LoadIdle /\ ExecIdle /\ MainIdle /\ NoCalls /\ CatIdle /\ PopIdle /\ RqIdle /\ ImIdle /\ LbIdle /\ RpIdle /\ ApiIdle

\* resetLuaState 283-299: sandbox_env is evaluated and fetched, then every
\* global is removed
ResetClear ==
    /\ sbpc = "reset"
    /\ sbSandboxEnv' = EvalSandboxEnv(sbEnv)
    /\ sbKeys' = DOMAIN EvalSandboxEnv(sbEnv)
    /\ sbEnv' = ClearEnv(EnvSet(sbEnv, "sandbox_env", EnvTbl(DOMAIN EvalSandboxEnv(sbEnv))))
    /\ sbpc' = "copy"
    /\ UNCHANGED <<fsVars, loadVars, execVars, mainVars, catVars, popVars, rqVars, imVars, lbVars, rpVars, apiVars>>

\* resetLuaState 301-303: one callback of sandboxEnv.ForEach
ResetCopy ==
    /\ sbpc = "copy"
    /\ \E k \in sbKeys :
        /\ sbEnv' = EnvSet(sbEnv, k, sbSandboxEnv[k])
        /\ sbKeys' = sbKeys \ {k}
    /\ UNCHANGED <<sbpc, sbSandboxEnv, fsVars, loadVars, execVars, mainVars, catVars, popVars, rqVars, imVars, lbVars, rpVars, apiVars>>

\* resetLuaState 306 and CreateSandbox 44-64: sandbox_env is unset, then
\* print, os and json are installed and the sandbox is returned
CreateSandbox ==
    /\ sbpc = "copy"
    /\ sbKeys = {}
    /\ sbEnv' = InstallHostBindings([n \in DOMAIN sbEnv \ {"sandbox_env"} |-> sbEnv[n]])
    /\ sbpc' = "created"
    /\ UNCHANGED <<sbSandboxEnv, sbKeys, fsVars, loadVars, execVars, mainVars, catVars, popVars, rqVars, imVars, lbVars, rpVars, apiVars>>

\* Load 334-344: populateLuaState and the project table
LoadPopulate ==
    /\ sbpc = "created"
    /\ sbEnv' = EnvSet(populateLuaState(sbEnv), "project", EnvTbl({"root"}))
    /\ sbpc' = "populated"
    /\ UNCHANGED <<sbSandboxEnv, sbKeys, fsVars, loadVars, execVars, mainVars, catVars, popVars, rqVars, imVars, lbVars, rpVars, apiVars>>

NextSandbox ==
    \/ ResetClear
    \/ ResetCopy
    \/ CreateSandbox
    \/ LoadPopulate

SpecSandbox == InitSandbox /\ [][NextSandbox]_vars

----------------------------------------------------------------------------
(* A script calling require: src/proj/project.go 390-429 and 844-886       *)

\* the importing script has set some globals and calls require
InitRequire ==
    /\ rqpc = "call"
    /\ rqEnv \in [UserGlobals -> {"nil", "importer"}]
    /\ rqEnvBefore = rqEnv
    /\ rqStack \in {<<>>, <<LNum>>} \cup {<<LStr(n)>> : n \in FileNames}
    /\ rqFiles \in SUBSET {<<"tunnel", "lua">>}
    /\ rqFile \in ImportedFiles
    /\ rqSeen = FreshEnv /\ rqRet = <<>> /\ rqErr = "nil"
    /\ luaProject = PreloadedProject /\ cwd = <<>>
    /\ LoadIdle /\ ExecIdle /\ MainIdle /\ NoCalls /\ CatIdle /\ PopIdle /\ SbIdle /\ ImIdle /\ LbIdle /\ RpIdle /\ ApiIdle

\* luaRequire of 390-429: the file is loaded into the project's own Lua
\* state and called there; the chunk's return values are handed back
LuaRequire ==
    /\ rqpc = "call"
    /\ rqpc' = "returned"
    /\ LET p        == popStringParam(rqStack)
           filename == WithLuaExt(p.str)
       IN /\ rqStack' = p.stack
          /\ IF p.err # "nil"
             THEN /\ rqErr' = p.err
                  /\ UNCHANGED <<rqEnv, rqSeen, rqRet>>
             ELSE IF ~p.found
             THEN /\ rqErr' = "missing string argument"
                  /\ UNCHANGED <<rqEnv, rqSeen, rqRet>>
             ELSE IF filename \notin rqFiles
             THEN /\ rqErr' = "file not found"
                  /\ UNCHANGED <<rqEnv, rqSeen, rqRet>>
             ELSE /\ rqSeen' = rqEnv
                  /\ rqEnv' = RunFile(rqEnv, rqFile)
                  /\ IF rqFile.raises
                     THEN rqErr' = "script error" /\ UNCHANGED rqRet
                     ELSE rqErr' = "nil" /\ rqRet' = rqFile.returns
    /\ UNCHANGED <<rqEnvBefore, rqFiles, rqFile, fsVars, loadVars, execVars, mainVars,
                   catVars, popVars, sbVars, imVars, lbVars, rpVars, apiVars>>

\* luaRequire of 844-886: CreateSandbox, populateLuaState, DoFile in the new
\* sandbox, and the new sandbox's Env pushed as the result
LuaRequireNewSandbox ==
    /\ rqpc = "call"
    /\ rqpc' = "returned"
    /\ LET p        == popStringParam(rqStack)
           filename == WithLuaExt(p.str)
       IN /\ rqStack' = p.stack
          /\ UNCHANGED rqEnv
          /\ IF p.err # "nil"
             THEN /\ rqErr' = p.err
                  /\ UNCHANGED <<rqSeen, rqRet>>
             ELSE IF ~p.found
             THEN /\ rqErr' = "missing string argument"
                  /\ UNCHANGED <<rqSeen, rqRet>>
             ELSE IF filename \notin rqFiles
             THEN /\ rqErr' = "file not found"
                  /\ UNCHANGED <<rqSeen, rqRet>>
             ELSE /\ rqSeen' = FreshEnv
                  /\ IF rqFile.raises
                     THEN rqErr' = "script error" /\ UNCHANGED rqRet
                     ELSE /\ rqErr' = "nil"
                          /\ rqRet' = <<[t |-> "table", env |-> RunFile(FreshEnv, rqFile)]>>
    /\ UNCHANGED <<rqEnvBefore, rqFiles, rqFile, fsVars, loadVars, execVars, mainVars,
                   catVars, popVars, sbVars, imVars, lbVars, rpVars, apiVars>>

NextRequire ==
    \/ LuaRequire
    \/ LuaRequireNewSandbox

SpecRequire == InitRequire /\ [][NextRequire]_vars

----------------------------------------------------------------------------
(* The list and inspect functions of docker.image and docker.container:    *)
(* src/proj/dockerImage.go, src/unnamed/part_009                           *)

\* the engine holds an image with some ID and parent ID
InitImage ==
    /\ impc = "call"
    /\ imId \in IdStrings /\ imParent \in IdStrings
    /\ imTable = NoIds
    /\ luaProject = PreloadedProject /\ cwd = <<>>
    /\ LoadIdle /\ ExecIdle /\ MainIdle /\ NoCalls /\ CatIdle /\ PopIdle /\ SbIdle /\ RqIdle /\ LbIdle /\ RpIdle /\ ApiIdle

\* dockerImageList 168-169: id and parentId
DockerImageList ==
    /\ impc = "call"
    /\ impc' = "image.list"
    /\ imTable' = [NoIds EXCEPT !.id = removeImageIDHeader(imId),
                                !.parentId = removeImageIDHeader(imParent)]
    /\ UNCHANGED <<imId, imParent, fsVars, loadVars, execVars, mainVars,
                   catVars, popVars, sbVars, rqVars, lbVars, rpVars, apiVars>>

\* dockerContainerList 176-185: imageId of a container running the image
DockerContainerList ==
    /\ impc = "call"
    /\ impc' = "container.list"
    /\ imTable' = [NoIds EXCEPT !.imageId = containerListImageID(imId)]
    /\ UNCHANGED <<imId, imParent, fsVars, loadVars, execVars, mainVars,
                   catVars, popVars, sbVars, rqVars, lbVars, rpVars, apiVars>>

\* dockerImageInspect with ImageInspectToLuaTable 203-217: id and parent are
\* copied from types.ImageInspect
DockerImageInspect ==
    /\ impc = "call"
    /\ impc' = "image.inspect"
    /\ imTable' = [NoIds EXCEPT !.id = imId, !.parent = imParent]
    /\ UNCHANGED <<imId, imParent, fsVars, loadVars, execVars, mainVars,
                   catVars, popVars, sbVars, rqVars, lbVars, rpVars, apiVars>>

\* dockerContainerInspect with ContainerJSONBaseToLuaTable 226-231: image is
\* copied from types.ContainerJSONBase
DockerContainerInspect ==
    /\ impc = "call"
    /\ impc' = "container.inspect"
    /\ imTable' = [NoIds EXCEPT !.image = imId]
    /\ UNCHANGED <<imId, imParent, fsVars, loadVars, execVars, mainVars,
                   catVars, popVars, sbVars, rqVars, lbVars, rpVars, apiVars>>

NextImage ==
    \/ DockerImageList
    \/ DockerContainerList
    \/ DockerImageInspect
    \/ DockerContainerInspect

SpecImage == InitImage /\ [][NextImage]_vars

----------------------------------------------------------------------------
(* Label application at the create call sites:                             *)
(* src/unnamed/part_000 53-78 (volume create),                             *)
(* src/lua-sandbox/os.go 1117-1129 (container create)                      *)

InitLabels ==
    /\ lbpc = "idle"
    /\ lbProj \in LabelProjects
    /\ lbLabels0 \in UserLabels
    /\ lbLabels = lbLabels0
    /\ lbN = 0
    /\ luaProject = PreloadedProject /\ cwd = <<>>
    /\ LoadIdle /\ ExecIdle /\ MainIdle /\ NoCalls
    /\ CatIdle /\ PopIdle /\ SbIdle /\ RqIdle /\ ImIdle /\ RpIdle /\ ApiIdle

\* runCreate 62-69: proj.ID() and proj.Name() read the `project` table and
\* end the process (log.Fatalln) when id or name is not a string
RunCreate ==
    /\ lbpc \in {"idle", "applied"}
    /\ lbN < MaxApply
    /\ IF ~lbProj.active
       THEN /\ lbpc' = "applied" /\ lbN' = lbN + 1
            /\ UNCHANGED lbLabels
       ELSE IF getProjectInfo(lbProj.lua) # "nil"
       THEN /\ lbpc' = "fatal"
            /\ UNCHANGED <<lbLabels, lbN>>
       ELSE /\ lbpc' = "applied" /\ lbN' = lbN + 1
            /\ lbLabels' = AddProjectLabels(lbLabels, lbProj.id, lbProj.name)
    /\ UNCHANGED <<lbProj, lbLabels0, fsVars, loadVars, execVars, mainVars,
                   catVars, popVars, sbVars, rqVars, imVars, rpVars, apiVars>>

\* createContainer 1120-1129: GetForWd may fail; Config.ID and Config.Name
\* are the strings read when the project was loaded
CreateContainer ==
    /\ lbpc \in {"idle", "applied"}
    /\ lbN < MaxApply
    /\ \E pErr \in BOOLEAN :
        IF pErr
        THEN /\ lbpc' = "error"
             /\ UNCHANGED <<lbLabels, lbN>>
        ELSE /\ lbpc' = "applied" /\ lbN' = lbN + 1
             /\ lbLabels' = IF lbProj.active
                            THEN AddProjectLabels(lbLabels, lbProj.id, lbProj.name)
                            ELSE lbLabels
    /\ UNCHANGED <<lbProj, lbLabels0, fsVars, loadVars, execVars, mainVars,
                   catVars, popVars, sbVars, rqVars, imVars, rpVars, apiVars>>

NextLabels ==
    \/ RunCreate
    \/ CreateContainer

SpecLabels == InitLabels /\ [][NextLabels]_vars

----------------------------------------------------------------------------
(* SaveInRecentProjects: src/unnamed/part_013 39-116 *)

\* the index file is missing, or holds a list without duplicate ids
InitRecent ==
    /\ rpFile \in {FileAbsent} \cup {FileJSON(l) : l \in DupFreeLists(ProjectIds)}
    /\ rpLatest = [i \in ProjectIds |-> 0]
    /\ rpErr = "nil" /\ rpN = 0
    /\ luaProject = PreloadedProject /\ cwd = <<>>
    /\ LoadIdle /\ ExecIdle /\ MainIdle /\ NoCalls
    /\ CatIdle /\ PopIdle /\ SbIdle /\ RqIdle /\ ImIdle /\ LbIdle /\ ApiIdle

\* SaveInRecentProjects(p): read, replace or append, sort, write.  The clock
\* is the wall clock; the read and the write may fail, and a failed write
\* leaves the old file or a truncated one.
SaveInRecentProjects ==
    /\ rpN < MaxSaves
    /\ \E id \in ProjectIds, now \in 1..MaxTime, readOk \in BOOLEAN, writeOk \in BOOLEAN :
        LET rProjects == getRecentProjects(rpFile, readOk)
            updated   == UpsertRecent(rProjects, RecentProject(id, now))
        IN \E sorted \in SortedArrangements(updated) :
            IF writeOk
            THEN /\ rpFile' = FileJSON(sorted)
                 /\ rpLatest' = [rpLatest EXCEPT ![id] = now]
                 /\ rpErr' = "nil"
                 /\ rpN' = rpN + 1
            ELSE /\ rpFile' \in {rpFile, FileCorrupt}
                 /\ rpErr' = "write error"
                 /\ UNCHANGED <<rpLatest, rpN>>
    /\ UNCHANGED <<fsVars, loadVars, execVars, mainVars,
                   catVars, popVars, sbVars, rqVars, imVars, lbVars, apiVars>>

NextRecent == SaveInRecentProjects

SpecRecent == InitRecent /\ [][NextRecent]_vars

----------------------------------------------------------------------------
(* Project scope of the engine API requests a script makes *)

InitScope ==
    /\ scLoadId \in ScopeIds
    /\ scId = LStr(scLoadId)
    /\ scIdRet = "none"
    /\ scContainers = <<>> /\ scUnder = <<>>
    /\ scListed = {} /\ scListActive = "none" /\ scListN = 0
    /\ scFatal = FALSE
    /\ ScOthersIdle

\* a task body or an imported script assigns project.id (dockertests.lua 127)
ScriptAssignId ==
    /\ ~scFatal
    /\ \E v \in ScopeIdValues : scId' = v
    /\ UNCHANGED <<scLoadId, scIdRet, scContainers, scUnder, scListed, scListActive, scListN,
                   scFatal, scFrame>>

\* Project.ID()
ProjectIDCall ==
    /\ ~scFatal
    /\ scIdRet' = ProjectID(scId)
    /\ scFatal' = (ProjectID(scId) = "fatal")
    /\ UNCHANGED <<scLoadId, scId, scContainers, scUnder, scListed, scListActive, scListN,
                   scFrame>>

\* docker.cmd('run ...') through the proxy: the container gets the label of
\* the scoper's project
ScopedContainerCreate ==
    /\ ~scFatal
    /\ Len(scContainers) < MaxContainers
    /\ LET id == NewScoperId(scLoadId, scId) IN
        IF id = "fatal"
        THEN /\ scFatal' = TRUE
             /\ UNCHANGED <<scContainers, scUnder>>
        ELSE /\ scContainers' = Append(scContainers, {ScopeLabel(id)})
             /\ scUnder' = Append(scUnder, ProjectID(scId))
             /\ UNCHANGED scFatal
    /\ UNCHANGED <<scLoadId, scId, scIdRet, scListed, scListActive, scListN, scFrame>>

\* docker.container.list() through the proxy
ScopedContainerList ==
    /\ ~scFatal
    /\ LET id == NewScoperId(scLoadId, scId) IN
        IF id = "fatal"
        THEN /\ scFatal' = TRUE
             /\ UNCHANGED <<scListed, scListActive, scListN>>
        ELSE /\ scListed' = ScopedList(scContainers, id)
             /\ scListActive' = ProjectID(scId)
             /\ scListN' = Len(scContainers)
             /\ UNCHANGED scFatal
    /\ UNCHANGED <<scLoadId, scId, scIdRet, scContainers, scUnder, scFrame>>

NextScope ==
    \/ ScriptAssignId
    \/ ProjectIDCall
    \/ ScopedContainerCreate
    \/ ScopedContainerList

SpecScope == InitScope /\ [][NextScope]_vars

----------------------------------------------------------------------------
(* docker.silentCmd(argsString): src/unnamed/part_014 53-99 *)

\* the script calls docker.silentCmd
InitSilent ==
    /\ sipc = "call"
    /\ siStack \in SeqsUpTo(SilentArgs, 1)
    /\ siOut = <<>> /\ siErrBuf = <<>> /\ siCmdErr = NoCmdErr
    /\ siRet = <<>> /\ siRaise = <<>>
    /\ SiOthersIdle

\* dockerSilentCmd(L): the command writes to the two buffers and returns
\* its error
DockerSilentCmd ==
    /\ sipc = "call"
    /\ LET r == popStringParam(siStack) IN
        IF r.err # "nil"
        THEN /\ sipc' = "raised" /\ siRaise' = <<"p">>
             /\ UNCHANGED <<siOut, siErrBuf, siCmdErr, siRet>>
        ELSE IF ~r.found
        THEN /\ sipc' = "raised" /\ siRaise' = <<"n">>
             /\ UNCHANGED <<siOut, siErrBuf, siCmdErr, siRet>>
        ELSE IF ~ShellwordsParseOk(r.str)
        THEN /\ sipc' = "raised" /\ siRaise' = <<"q">>
             /\ UNCHANGED <<siOut, siErrBuf, siCmdErr, siRet>>
        ELSE \E out \in StreamTexts, errbuf \in StreamTexts, cerr \in CmdErrors :
                LET f == SilentCmdFinish(out, errbuf, cerr) IN
                /\ siOut' = out /\ siErrBuf' = errbuf /\ siCmdErr' = cerr
                /\ sipc' = f.pc /\ siRet' = f.ret /\ siRaise' = f.raise
    /\ siStack' = popStringParam(siStack).stack
    /\ UNCHANGED siFrame

NextSilent == DockerSilentCmd

SpecSilent == InitSilent /\ [][NextSilent]_vars

----------------------------------------------------------------------------
(* A task body calling host functions under Exec's protected call *)

\* Exec has called the task function
InitHostErr ==
    /\ hepc = "task"
    /\ heId \in ScopeIdValues
    /\ heCalls = 0 /\ heFailure = "none"
    /\ heErr = "nil" /\ heExitBy = "none" /\ heExitCode = 0
    /\ HeOthersIdle

\* the outcome o of a host call the body made; with inPcall the script made
\* the call through pcall and goes on after a Lua error
HostCallEnds(o, inPcall) ==
    /\ heCalls' = heCalls + 1
    /\ CASE o.kind = "ok" ->
              /\ UNCHANGED <<hepc, heFailure, heErr, heExitBy, heExitCode>>
         [] o.kind = "raise" /\ inPcall ->
              /\ heFailure' = "none"
              /\ UNCHANGED <<hepc, heErr, heExitBy, heExitCode>>
         [] o.kind = "raise" /\ ~inPcall ->
              /\ hepc' = "returned" /\ heFailure' = o.what /\ heErr' = o.what
              /\ UNCHANGED <<heExitBy, heExitCode>>
         [] o.kind = "exit" ->
              /\ hepc' = "exited" /\ heFailure' = o.what
              /\ heExitBy' = "sandbox" /\ heExitCode' = IF o.what = "2" THEN 2 ELSE 1
              /\ UNCHANGED heErr

\* docker.volume.list(arguments)
DockerVolumeList ==
    /\ hepc = "task" /\ heCalls < MaxHostCalls
    /\ \E stack \in ListArgStacks, clientOk \in BOOLEAN, inPcall \in BOOLEAN :
          HostCallEnds(ListFunction(stack, clientOk), inPcall)
    /\ UNCHANGED <<heId, heFrame>>

\* docker.container.list(arguments)
DockerContainerListCall ==
    /\ hepc = "task" /\ heCalls < MaxHostCalls
    /\ \E stack \in ListArgStacks, clientOk \in BOOLEAN, inPcall \in BOOLEAN :
          HostCallEnds(ListFunction(stack, clientOk), inPcall)
    /\ UNCHANGED <<heId, heFrame>>

\* a request of the body for which the host reads Project.ID()
HostReadsProjectID ==
    /\ hepc = "task" /\ heCalls < MaxHostCalls
    /\ HostCallEnds(AccessorOutcome(heId), FALSE)
    /\ UNCHANGED <<heId, heFrame>>

\* the task body returns
TaskBodyReturns ==
    /\ hepc = "task"
    /\ hepc' = "returned" /\ heErr' = "nil"
    /\ UNCHANGED <<heId, heCalls, heFailure, heExitBy, heExitCode, heFrame>>

\* main after Exec: prints the error and exits 1, or returns
DispatcherEnds ==
    /\ hepc = "returned"
    /\ hepc' = "exited" /\ heExitBy' = "dispatcher"
    /\ heExitCode' = IF heErr # "nil" THEN 1 ELSE 0
    /\ UNCHANGED <<heId, heCalls, heFailure, heErr, heFrame>>

NextHostErr ==
    \/ DockerVolumeList
    \/ DockerContainerListCall
    \/ HostReadsProjectID
    \/ TaskBodyReturns
    \/ DispatcherEnds

SpecHostErr == InitHostErr /\ [][NextHostErr]_vars

----------------------------------------------------------------------------
(* runInit: src/unnamed/part_001 41-77 *)

InitProjectInit ==
    /\ inpc = "call"
    /\ inMarker \in Markers /\ inMarker0 = inMarker
    /\ inStatFails \in BOOLEAN
    /\ inName \in InitNames /\ inBase \in BaseNames
    /\ inRet = "nil" /\ inWrites = 0
    /\ InOthersIdle

\* runInit(dockerCli, opts), with the call of project.Init
RunInit ==
    /\ inpc = "call"
    /\ \E getwdSucceeds \in BOOLEAN, writeOk \in BOOLEAN :
        IF ~getwdSucceeds
        THEN /\ inpc' = "done" /\ inRet' = "getwd error"
             /\ UNCHANGED <<inMarker, inWrites>>
        ELSE IF ~NameMatches(EffectiveName(inName, inBase))
        THEN /\ inpc' = "done" /\ inRet' = "project name can only contain ..."
             /\ UNCHANGED <<inMarker, inWrites>>
        ELSE LET r == Init(inMarker, inStatFails, writeOk) IN
             /\ inpc' = r.pc /\ inRet' = r.ret
             /\ inMarker' = r.marker /\ inWrites' = r.writes
    /\ UNCHANGED <<inMarker0, inStatFails, inName, inBase, inFrame>>

NextProjectInit == RunInit

SpecProjectInit == InitProjectInit /\ [][NextProjectInit]_vars

----------------------------------------------------------------------------
(* dockerImageInspect / dockerContainerInspect with the goroutine that runs
   inspect.Inspect on the write end of the pipe *)

\* the script calls image.inspect(...) or container.inspect(...)
InitInspect ==
    /\ ivFn \in {"image.inspect", "container.inspect"}
    /\ ivpc = "pop"
    /\ ivStack \in SeqsUpTo(InspectArgs, MaxRefs)
    /\ ivRefs = <<>>
    /\ ivW = "idle" /\ ivWi = 1 /\ ivElems = <<>>
    /\ ivPipe = <<>> /\ ivBuf = <<>>
    /\ ivDecoded = <<>> /\ ivRet = <<>> /\ ivErr = "nil"
    /\ IvOthersIdle

\* 30-53: the identifiers are popped, the pipe is made, the goroutine starts
InspectStart ==
    /\ ivpc = "pop"
    /\ LET r == PopRefs(ivStack, <<>>) IN
        /\ ivStack' = r.stack
        /\ ivRefs' = r.refs
        /\ IF r.err # "nil"
           THEN /\ ivpc' = "raised" /\ ivErr' = r.err /\ UNCHANGED ivW
           ELSE /\ ivpc' = "open" /\ ivW' = "refs" /\ UNCHANGED ivErr
    /\ UNCHANGED <<ivFn, ivWi, ivElems, ivPipe, ivBuf, ivDecoded, ivRet, ivFrame>>

\* the decoder refills its buffer: a Read on the pipe takes some of the
\* bytes of the pending Write, and blocks while there is none
ReaderRead ==
    /\ ivpc \in {"open", "more"}
    /\ SkipSpace(ivBuf) = <<>>
    /\ ivPipe # <<>>
    /\ \E n \in 1..Len(ivPipe) :
        /\ ivBuf' = SubSeq(ivPipe, 1, n)
        /\ ivPipe' = SubSeq(ivPipe, n + 1, Len(ivPipe))
    /\ UNCHANGED <<ivFn, ivpc, ivStack, ivRefs, ivW, ivWi, ivElems, ivDecoded, ivRet, ivErr,
                   ivFrame>>

\* 55-60: dec.Token() reads the open bracket
ReaderOpen ==
    /\ ivpc = "open"
    /\ SkipSpace(ivBuf) # <<>>
    /\ ivBuf' = Tail(SkipSpace(ivBuf))
    /\ IF Head(SkipSpace(ivBuf)) \in {TokOpen, TokClose}
       THEN ivpc' = "more" /\ UNCHANGED ivErr
       ELSE ivpc' = "raised" /\ ivErr' = "invalid character"
    /\ UNCHANGED <<ivFn, ivStack, ivRefs, ivW, ivWi, ivElems, ivPipe, ivDecoded, ivRet, ivFrame>>

\* 65-90: dec.More() and dec.Decode of one value, or the closing bracket and
\* the result
ReaderMore ==
    /\ ivpc = "more"
    /\ SkipSpace(ivBuf) # <<>>
    /\ ivBuf' = Tail(SkipSpace(ivBuf))
    /\ LET tok == Head(SkipSpace(ivBuf)) IN
        CASE tok.k = "elem" ->
                /\ ivDecoded' = Append(ivDecoded, tok.id)
                /\ UNCHANGED <<ivpc, ivRet, ivErr>>
          [] tok.k = "]" ->
                /\ ivpc' = ReaderAfterClose
                /\ ivRet' = ResultArray(ivDecoded)
                /\ UNCHANGED <<ivDecoded, ivErr>>
          [] OTHER ->
                /\ ivpc' = "raised" /\ ivErr' = "invalid character"
                /\ UNCHANGED <<ivDecoded, ivRet>>
    /\ UNCHANGED <<ivFn, ivStack, ivRefs, ivW, ivWi, ivElems, ivPipe, ivFrame>>

\* inspect.Inspect: getRef of the next identifier; the loop ends at the
\* first identifier that does not resolve
WriterGetRef ==
    /\ ivW = "refs"
    /\ IF ivWi > Len(ivRefs)
       THEN /\ ivW' = "flush" /\ UNCHANGED <<ivWi, ivElems>>
       ELSE IF Resolves(ivRefs[ivWi])
       THEN /\ ivElems' = Append(ivElems, ivRefs[ivWi])
            /\ ivWi' = ivWi + 1 /\ UNCHANGED ivW
       ELSE /\ ivW' = "flush" /\ UNCHANGED <<ivWi, ivElems>>
    /\ UNCHANGED <<ivFn, ivpc, ivStack, ivRefs, ivPipe, ivBuf, ivDecoded, ivRet, ivErr, ivFrame>>

\* inspector.Flush(): the Write of the array
WriterFlush ==
    /\ ivW = "flush"
    /\ ivPipe' = FlushArray(ivElems)
    /\ ivW' = IF ivElems = <<>> THEN "newline" ELSE "copy"
    /\ UNCHANGED <<ivFn, ivpc, ivStack, ivRefs, ivWi, ivElems, ivBuf, ivDecoded, ivRet, ivErr,
                   ivFrame>>

\* a Write returns once the reader has taken all its bytes: the line end is
\* written next, and after it Inspect returns; the writer is never closed
WriterWriteReturns ==
    /\ ivW \in {"copy", "newline"}
    /\ ivPipe = <<>>
    /\ IF ivW = "copy"
       THEN ivPipe' = <<TokNewline>> /\ ivW' = "newline"
       ELSE ivW' = "done" /\ UNCHANGED ivPipe
    /\ UNCHANGED <<ivFn, ivpc, ivStack, ivRefs, ivWi, ivElems, ivBuf, ivDecoded, ivRet, ivErr,
                   ivFrame>>

ReaderStep == InspectStart \/ ReaderRead \/ ReaderOpen \/ ReaderMore
WriterStep == WriterGetRef \/ WriterFlush \/ WriterWriteReturns

NextInspect ==
    \/ InspectStart
    \/ ReaderRead
    \/ ReaderOpen
    \/ ReaderMore
    \/ WriterGetRef
    \/ WriterFlush
    \/ WriterWriteReturns

SpecInspect == InitInspect /\ [][NextInspect]_vars

\* the Go scheduler runs both the script's goroutine and the inspect
\* goroutine whenever they can run
SpecInspectFair == SpecInspect /\ WF_vars(ReaderStep) /\ WF_vars(WriterStep)

----------------------------------------------------------------------------
(* Properties of the dispatcher (Spec) *)

\* the invocation names a command and got as far as the dispatch decision
Dispatching ==
    /\ mpc \in {"dispatch", "sandbox", "execute", "exited"}
    /\ outcome \notin {"LoadError", "Fatal"}
    /\ Len(osArgs) > 0

\* cmdName is a task of the active project
DeclaredTask ==
    /\ proj = "loaded" /\ Len(osArgs) > 0
    /\ luaProject.kind = "table" /\ luaProject.tasks.ok /\ osArgs[1] \in luaProject.tasks.names

\* C1: with a project active, a cmdName that is a declared task, names a
\* built-in and is not in the override allow-list is never run, neither as
\* task nor as built-in, and the invocation ends in OverrideRejected with exit
\* status 1 and the message listing the allowed names as last stderr line.
C1_OverrideRejected ==
    (Dispatching /\ DeclaredTask /\ osArgs[1] \in Builtins
        /\ osArgs[1] \notin {CommandsAllowedToBeOverridden[i] :
                                i \in 1..Len(CommandsAllowedToBeOverridden)})
    => /\ calls = <<>>
       /\ ~builtinRan
       /\ mpc \in {"dispatch", "exited"}
       /\ mpc = "exited" =>
            /\ outcome = "OverrideRejected"
            /\ exitCode = 1
            /\ stderr = <<OverrideMessage(osArgs[1])>>

\* C1 witness: `docker push` in a project that declares a push task was refused
C1_Witness ==
    /\ mpc = "exited" /\ outcome = "OverrideRejected"
    /\ Len(osArgs) > 0 /\ osArgs[1] = "push" /\ "push" \in luaProject.tasks.names

\* C2: with a project active, a cmdName that is a declared task, names a
\* built-in and is in the override allow-list makes the invocation call the
\* task function (whenever it exits with status 0) and never run the built-in
\* command of that name.
C2_AllowedOverrideRunsTask ==
    (mpc = "exited" /\ Dispatching /\ DeclaredTask /\ osArgs[1] \in Builtins
        /\ IsCommandOverrideAllowed(osArgs[1]))
    => /\ ~builtinRan
       /\ exitCode = 0 => calls # <<>>

\* C3: when no project is active, or cmdName is not a task of the active
\* project, no task function is ever called; the invocation ends in the
\* built-in command when cmdName names one, and otherwise in NotFound with a
\* non-zero exit status and no command run.
C3_UndeclaredGoesToBuiltin ==
    (Dispatching /\ ~DeclaredTask)
    => /\ calls = <<>>
       /\ mpc \in {"dispatch", "execute", "exited"}
       /\ mpc = "exited" =>
            IF osArgs[1] \in Builtins
            THEN outcome = "BuiltinOnly" /\ builtinRan
            ELSE outcome = "NotFound" /\ exitCode # 0 /\ ~builtinRan

\* C3 witness: inside a project with tasks, an undeclared built-in name ran
\* the built-in
C3_Witness ==
    /\ mpc = "exited" /\ proj = "loaded" /\ luaProject.tasks.names # {}
    /\ Len(osArgs) > 0 /\ osArgs[1] = "ps" /\ outcome = "BuiltinOnly" /\ builtinRan /\ calls = <<>>

----------------------------------------------------------------------------
(* Properties of Project.Exec (SpecExec) *)

\* args[0] was a task of the catalog when Exec was called
DeclaredAtCall ==
    /\ Len(args) > 0
    /\ luaAtCall.kind = "table" /\ luaAtCall.tasks.ok /\ args[1] \in luaAtCall.tasks.names

\* the task body ran and raised
BodyRaised == calls # <<>> /\ calls[Len(calls)].body = "raise"

\* C4: whenever Exec has returned (no arguments, chRootDir failed, catalog did
\* not parse, task not found, task succeeded, task raised) the working
\* directory is the one the process had when Exec was called.
C4_ExecRestoresWorkingDirectory ==
    epc = "returned" => cwd = cwdBefore

\* C4 witness: the body ran inside the root, raised, and Exec returned to a
\* caller whose working directory is not the root
C4_Witness ==
    /\ epc = "returned" /\ BodyRaised /\ bodyCwd = <<rootDir>>
    /\ cwdBefore # rootDir /\ cwd = cwdBefore

\* C5 as stated: Exec with args[0] not a declared task returns found = false
\* and err = nil and calls no task function.
C5_AbsentTaskIsNotAnError ==
    (epc = "returned" /\ Len(args) > 0 /\ ~DeclaredAtCall)
    => (found = FALSE /\ err = "nil" /\ calls = <<>>)

\* C5 amended: Exec with args[0] not a declared task returns found = false
\* and calls no task function; err is nil exactly when the chdir into the
\* project root succeeded and the catalog parsed, and is that failure's error
\* otherwise (Exec changes directory before it looks the task up).
C5_AbsentTaskNotFound ==
    (epc = "returned" /\ Len(args) > 0 /\ ~DeclaredAtCall)
    => /\ found = FALSE
       /\ calls = <<>>
       /\ err = "nil" <=> (getwdOk /\ rootDir \in dirs /\ listCommands(luaAtCall).err = "nil")

\* C5 witness: a catalog with other tasks, the working directory switched and
\* restored, and the absent name reported as (false, nil)
C5_Witness ==
    /\ epc = "returned" /\ Len(args) > 0 /\ ~DeclaredAtCall
    /\ luaAtCall.tasks.names # {} /\ cwdBefore # rootDir
    /\ found = FALSE /\ err = "nil"

\* C6: when the task exists and its body raises, Exec returns found = true
\* and the raised error as err, and nothing escapes into the host process.
C6_ScriptErrorIsReturned ==
    (epc \in {"deferred", "returned"} /\ BodyRaised)
    => (found = TRUE /\ err = "script error" /\ ~hostPanic)

\* C6 witness: Exec returned after a body that raised
C6_Witness ==
    epc = "returned" /\ BodyRaised /\ found = TRUE /\ err # "nil"

----------------------------------------------------------------------------
(* Properties of the locator and of Load (SpecLoad) *)

\* no ancestor of the start path (itself and "/" included) holds a marker file
NoMarkerFile == \A d \in Ancestors(Clean(rawPath)) : fs[d] # "file"

\* FindProjectRoot has stopped
SearchOver == lpc \in {"found", "notfound", "returned"}

\* FindProjectRoot reported a root
FoundReported == lpc = "found" \/ (lpc = "returned" /\ loadRet \in {"project", "error"})

\* C7: FindProjectRoot stops after testing each of the start directory and
\* its ancestors at most once, nearest first, and reports not-found when none
\* of them contains the marker file.
C7_SearchBoundedAndNotFound ==
    /\ Len(tested) <= Len(Clean(rawPath)) + 1
    /\ \A i \in 1..Len(tested) : tested[i] = SubSeq(Clean(rawPath), 1, Len(Clean(rawPath)) + 1 - i)
    /\ (SearchOver /\ NoMarkerFile) =>
            /\ lpc = "notfound" \/ loadRet = "nil_nil"
            /\ Len(tested) = Len(Clean(rawPath)) + 1

\* C8: when FindProjectRoot reports a root, it is the nearest of the start
\* directory and its ancestors that contains a marker file: the root holds a
\* regular marker file and no directory below it on the way to the start path
\* does.
C8_NearestMarkerWins ==
    FoundReported =>
        /\ projectRootPath \in Ancestors(Clean(rawPath))
        /\ fs[projectRootPath] = "file"
        /\ \A d \in Ancestors(Clean(rawPath)) :
                Len(d) > Len(projectRootPath) => fs[d] # "file"

\* C8 witness: the root lies above the start path, below another marked
\* ancestor, with a directory named like the marker passed over on the way
C8_Witness ==
    /\ lpc = "found"
    /\ \E d \in Ancestors(Clean(rawPath)) : Len(d) < Len(projectRootPath) /\ fs[d] = "file"
    /\ \E d \in Ancestors(Clean(rawPath)) : Len(d) > Len(projectRootPath) /\ fs[d] = "dir"

\* C9: Load returns (nil, nil) whenever no ancestor holds a usable marker
\* file, also when a marker path is a directory or cannot be stat-ed.
C9_NoUsableMarkerIsNotInProject ==
    (lpc = "returned" /\ NoMarkerFile) => loadRet = "nil_nil"

\* C10: Load returns a Project only when project.id and project.name are both
\* strings after the marker script ran.
C10_LoadValidatesIdAndName ==
    (lpc = "returned" /\ loadRet = "project")
    => (luaProject.id = "string" /\ luaProject.name = "string")

----------------------------------------------------------------------------
(* Properties of the task catalog (SpecCatalog) *)

\* project.tasks, when the global `project` is a table holding a tasks table
HasTasksTable == luaValueToTable(lcProject) /\ RawGetString(lcProject, "tasks").t = "table"
TasksTable    == RawGetString(lcProject, "tasks")

\* a sequence: array entries 1..n without holes and no other key
IsSequence(d) ==
    /\ d.t = "table" /\ DOMAIN d.str = {} /\ d.oth = {}
    /\ \A i \in 1..Len(d.arr) : d.arr[i] # LNil

\* a keyed map: no array entry
IsKeyedMap(d) == d.t = "table" /\ Len(d.arr) = 0 /\ (DOMAIN d.str # {} \/ d.oth # {})

\* array entries next to keyed entries
IsMixed(d) ==
    /\ d.t = "table" /\ (\E i \in 1..Len(d.arr) : d.arr[i] # LNil)
    /\ (DOMAIN d.str # {} \/ d.oth # {})

IsStringOrAbsent(d, k) == k \in DOMAIN d.str => d.str[k].t = "string"

\* the five legal shapes
LegalShape(d) ==
    \/ d.t = "function"
    \/ IsSequence(d) /\ Len(d.arr) = 1 /\ d.arr[1].t = "function"
    \/ IsSequence(d) /\ Len(d.arr) = 2 /\ d.arr[1].t = "function" /\ d.arr[2].t = "string"
    \/ IsSequence(d) /\ Len(d.arr) = 3 /\ d.arr[1].t = "function"
                     /\ d.arr[2].t = "string" /\ d.arr[3].t = "string"
    \/ IsKeyedMap(d) /\ "func" \in DOMAIN d.str /\ d.str["func"].t = "function"
                     /\ IsStringOrAbsent(d, "short") /\ IsStringOrAbsent(d, "desc")

\* field of a keyed map as a description: absent counts as empty
FieldText(d, k) == IF k \in DOMAIN d.str THEN d.str[k].v ELSE ""

\* the function, short and long description a legal declaration stands for
DeclaredFunction(d) ==
    IF d.t = "function" THEN d
    ELSE IF IsSequence(d) THEN d.arr[1] ELSE d.str["func"]

DeclaredShort(d) ==
    IF d.t = "function" THEN ""
    ELSE IF IsSequence(d) THEN (IF Len(d.arr) = 1 THEN "" ELSE d.arr[2].v)
    ELSE IF FieldText(d, "short") # "" THEN FieldText(d, "short") ELSE FieldText(d, "desc")

DeclaredLong(d) ==
    IF d.t = "function" THEN ""
    ELSE IF IsSequence(d)
         THEN (IF Len(d.arr) = 1 THEN "" ELSE IF Len(d.arr) = 2 THEN d.arr[2].v ELSE d.arr[3].v)
    ELSE IF FieldText(d, "desc") # "" THEN FieldText(d, "desc") ELSE FieldText(d, "short")

CatalogReturned == lcpc = "returned" /\ ~lcRet.isNil

\* C11: in a catalog listCommands returns, every task declared in one of the
\* five legal shapes has exactly one entry with its name, bound to the
\* declared function, with short = long = "" for a bare function and a
\* 1-element sequence, short = long = s for {f, s}, short = s and long = l
\* for {f, s, l}, and short and long taken from the fields of a keyed map
\* (an empty one inheriting the other); the catalog has no other entry.
C11_LegalShapesRoundTrip ==
    (CatalogReturned /\ HasTasksTable) =>
        /\ \A k \in DOMAIN TasksTable.str :
              LegalShape(TasksTable.str[k]) =>
                 /\ Cardinality({i \in DOMAIN lcRet.cmds : lcRet.cmds[i].Name = k}) = 1
                 /\ \A i \in DOMAIN lcRet.cmds :
                       lcRet.cmds[i].Name = k =>
                          /\ lcRet.cmds[i].Function = DeclaredFunction(TasksTable.str[k])
                          /\ lcRet.cmds[i].ShortDescription = DeclaredShort(TasksTable.str[k])
                          /\ lcRet.cmds[i].Description = DeclaredLong(TasksTable.str[k])
        /\ \A i \in DOMAIN lcRet.cmds : lcRet.cmds[i].Name \in DOMAIN TasksTable.str

\* C11 witness: a catalog of two tasks, a {f, s} sequence and a bare function
C11_Witness ==
    /\ CatalogReturned /\ HasTasksTable
    /\ Len(lcRet.cmds) = 2
    /\ lcRet.cmds[1] = TaskCommand("build", "s", "s", LFn("f"))
    /\ lcRet.cmds[2] = TaskCommand("push", "", "", LFn("g"))

\* a sequence of 0 or of 4 and more elements, or a mixed table
OffendingShape(d) ==
    \/ IsSequence(d) /\ (Len(d.arr) = 0 \/ Len(d.arr) >= 4)
    \/ IsMixed(d)

\* project.tasks is a table whose keys are all strings
PureTasksMap ==
    /\ HasTasksTable
    /\ TasksTable.oth = {} /\ \A i \in 1..Len(TasksTable.arr) : TasksTable.arr[i] = LNil

C13_DescriptionsEmptyTogether ==
    CatalogReturned =>
        \A i \in DOMAIN lcRet.cmds :
            (lcRet.cmds[i].ShortDescription = "") <=> (lcRet.cmds[i].Description = "")

\* C14: when project.tasks has an array part or a key that is not a string,
\* listCommands returns an error and a nil catalog; a catalog is only
\* returned for a pure string-keyed map.
C14_TasksMustBePureMap ==
    /\ (lcpc = "returned" /\ HasTasksTable /\ ~PureTasksMap) => (lcErr # NoErr /\ lcRet.isNil)
    /\ CatalogReturned => PureTasksMap

\* C14 witness: a tasks table with a legal build task and a boolean key was
\* refused for its key
C14_Witness ==
    /\ lcpc = "returned" /\ HasTasksTable
    /\ TasksTable.oth = {"boolean"} /\ TableLen(TasksTable) = 0
    /\ "build" \in DOMAIN TasksTable.str /\ LegalShape(TasksTable.str["build"])
    /\ lcRet.isNil /\ lcErr = TaskErr("task names must be strings", "")

----------------------------------------------------------------------------
(* Properties of PopStringParam (SpecParams) *)

\* C15: a PopStringParam call has one of three outcomes, decided by the next
\* argument alone: none left - found = false, no error, stack untouched; a
\* string - that string, found = true, no error; any other value, an explicit
\* nil included - the type error.  In the last two the argument is consumed
\* and the others stay in order.  found = false never comes with an error,
\* and an error never comes from an empty stack.
C15_PopStringParamOutcomes ==
    pN > 0 =>
        /\ pBefore = <<>> =>
              pRet = [str |-> "", found |-> FALSE, err |-> "nil"] /\ pstack = <<>>
        /\ (pBefore # <<>> /\ pBefore[1].t = "string") =>
              pRet = [str |-> pBefore[1].v, found |-> TRUE, err |-> "nil"]
        /\ (pBefore # <<>> /\ pBefore[1].t # "string") =>
              pRet.err = "parameter is not a string"
        /\ pBefore # <<>> => pstack = Tail(pBefore)
        /\ ~pRet.found => (pRet.err = "nil" /\ pBefore = <<>>)

\* C15 witness: after a string was read, an explicit nil in second position
\* was reported as a type error
C15_Witness ==
    /\ pN = 2 /\ pBefore # <<>> /\ pBefore[1] = LNil /\ Len(pBefore) = 2
    /\ pRet.err = "parameter is not a string" /\ Len(pstack) = 1

----------------------------------------------------------------------------
(* Properties of the sandbox (SpecSandbox) *)

\* the fixed allow-list of globals
AllowList ==
    {"tostring", "tonumber", "pairs", "ipairs", "unpack", "error", "assert", "pcall",
     "string", "table"}

\* file and process primitives of the standard library
ForbiddenGlobals ==
    {"io", "dofile", "loadfile", "load", "loadstring", "package", "debug", "module",
     "getfenv", "setfenv", "_G"}
ForbiddenOs == {"execute", "remove", "rename", "exit", "tmpname"}

----------------------------------------------------------------------------
(* Properties of require (SpecRequire) *)

\* C17: once require has run a file, the importer's globals are what they
\* were before the call, the imported file started with none of them, and
\* when the file did not raise the one value handed to the importer is the
\* table of the file's own top-level environment.
C17_RequireIsIsolated ==
    (rqpc = "returned" /\ rqErr \in {"nil", "script error"}) =>
        /\ rqEnv = rqEnvBefore
        /\ rqSeen = FreshEnv
        /\ rqErr = "nil" => rqRet = <<[t |-> "table", env |-> RunFile(FreshEnv, rqFile)]>>

----------------------------------------------------------------------------
(* Properties of the identifiers handed to scripts (SpecImage) *)

\* position of the first colon of s, 0 when it has none
FirstColon(s) ==
    IF \E i \in 1..Len(s) : s[i] = ":"
    THEN CHOOSE i \in 1..Len(s) : s[i] = ":" /\ \A j \in 1..(i - 1) : s[j] # ":"
    ELSE 0

\* 'algo:hex' without its prefix; a value with no colon as it is
BareDigest(s) ==
    IF FirstColon(s) = 0 THEN s
    ELSE [i \in 1..(Len(s) - FirstColon(s)) |-> s[FirstColon(s) + i]]

\* C18: the image identifiers in the tables handed to scripts - id and
\* parentId of image.list, imageId of container.list, id of image.inspect,
\* image of container.inspect - are the engine's identifiers without the
\* hash-algorithm prefix, and unchanged when they have no colon.
C18_ImageIdsAreBare ==
    /\ impc = "image.list" =>
          imTable.id = BareDigest(imId) /\ imTable.parentId = BareDigest(imParent)
    /\ impc = "container.list" => imTable.imageId = BareDigest(imId)
    /\ impc = "image.inspect" => imTable.id = BareDigest(imId)
    /\ impc = "container.inspect" => imTable.image = BareDigest(imId)

----------------------------------------------------------------------------
(* Properties of the project labels (SpecLabels) *)

IdMarker   == LabelKey("docker.project.id:", lbProj.id)
NameMarker == LabelKey("docker.project.name:", lbProj.name)

----------------------------------------------------------------------------
(* Properties of the recent-projects index (SpecRecent) *)

\* the index as GetRecentProjects reads it
RecentIndex == getRecentProjects(rpFile, TRUE)

\* C20: from a missing or duplicate-free index, after any sequence of
\* SaveInRecentProjects calls the index has at most one entry per project
\* id, an entry of an id saved in the sequence carries the timestamp of the
\* latest stored save of that id, and once a save has stored the file the
\* list is in non-increasing order of timestamp.
C20_RecentProjectsDeduped ==
    /\ \A i, j \in 1..Len(RecentIndex) :
          RecentIndex[i].IDVal = RecentIndex[j].IDVal => i = j
    /\ \A i \in 1..Len(RecentIndex) :
          rpLatest[RecentIndex[i].IDVal] # 0 =>
              RecentIndex[i].Timestamp = rpLatest[RecentIndex[i].IDVal]
    /\ rpN > 0 =>
          \A i \in 1..(Len(RecentIndex) - 1) :
              RecentIndex[i].Timestamp >= RecentIndex[i + 1].Timestamp

\* C20 witness: p1 was in the index with timestamp 1, was saved again at 3,
\* and now heads a list of three projects with that timestamp
C20_Witness ==
    /\ rpN >= 2 /\ Len(RecentIndex) = 3
    /\ RecentIndex[1] = RecentProject("p1", 3)
    /\ RecentIndex[3].Timestamp < 3

----------------------------------------------------------------------------
(* Properties of the project scope (SpecScope) *)

\* C21: once the project is loaded, Project.ID() returns the id the marker
\* declared at load, whatever scripts run in the sandbox afterwards.
C21_IdImmutableAfterLoad ==
    scIdRet # "none" => scIdRet = scLoadId

----------------------------------------------------------------------------
(* Properties of docker.silentCmd (SpecSilent) *)

\* s occurs in m as a run of consecutive characters
ContainsText(m, s) ==
    \E i \in 0..(Len(m) - Len(s)) : SubSeq(m, i + 1, i + Len(s)) = s

\* C23: silentCmd returns the trimmed output and, second, the trimmed error
\* stream, or nothing when the error stream is empty; when the command
\* fails it raises an error whose message contains the captured error
\* stream whenever that is not empty.
C23_SilentCmdResults ==
    /\ sipc = "returned" =>
          /\ siRet[1] = TrimSpace(siOut)
          /\ TrimSpace(siErrBuf) # <<>> => Len(siRet) = 2 /\ siRet[2] = TrimSpace(siErrBuf)
          /\ siErrBuf = <<>> => Len(siRet) = 1
    /\ siCmdErr.isErr =>
          /\ sipc = "raised"
          /\ siErrBuf # <<>> => ContainsText(siRaise, TrimSpace(siErrBuf))

----------------------------------------------------------------------------
(* Properties of failures on the sandbox side (SpecHostErr) *)

\* C24: no failure inside a host function or project accessor ends the
\* process itself: it comes back to the dispatcher as the error Exec
\* returns, and only the dispatcher sets the exit code.
C24_SandboxErrorsReachDispatcher ==
    /\ heExitBy # "sandbox"
    /\ (hepc = "returned" /\ heFailure # "none") => heErr = heFailure

----------------------------------------------------------------------------
(* Properties of docker project init (SpecProjectInit) *)

\* the name is made of letters, digits, periods and hyphens, and not empty
LegalName(name) ==
    name # <<>> /\ \A i \in 1..Len(name) : name[i] \notin {" ", "/"}

\* C25: init never overwrites a project: on a directory that holds the
\* marker it returns an error and leaves the marker, and so the id, as it
\* was; a name that is not legal (the base name of the directory standing
\* in for an empty one) is rejected before anything is written.
C25_InitNeverOverwrites ==
    inpc # "call" =>
        /\ inMarker0.kind = "file" =>
              /\ inpc = "done" /\ inRet # "nil"
              /\ inMarker = inMarker0
        /\ ~LegalName(IF inName = <<>> THEN inBase ELSE inName) =>
              /\ inpc = "done" /\ inRet # "nil"
              /\ inWrites = 0 /\ inMarker = inMarker0

----------------------------------------------------------------------------
(* Properties of image.inspect and container.inspect (SpecInspect) *)

\* C26: called with n identifiers, inspect returns an array of n entries in
\* argument order: a table for each identifier that resolves, nil for each
\* that does not.
C26_InspectOneEntryPerIdentifier ==
    ivpc = "returned" =>
        /\ Len(ivRet) = Len(ivRefs)
        /\ \A i \in 1..Len(ivRefs) :
              i <= Len(ivRet) =>
                  ivRet[i] = IF Resolves(ivRefs[i]) THEN InspectTable(ivRefs[i]) ELSE LNil

----------------------------------------------------------------------------
(* Properties of the arguments Exec hands to the task (SpecExec) *)

\* the argument holds a white space character
HasWhitespace(arg) == \E i \in 1..Len(arg) : arg[i] \in {" ", "\t", "\n"}

\* the argument between double quotes, its own double quotes escaped
InQuotes(arg) == <<"\"">> \o EscapeQuotes(arg) \o <<"\"">>

\* C27: Exec passes args[1:] to the task as one sequence of the same
\* length and order; an argument with white space goes in double quotes
\* with its double quotes backslash-escaped, any other goes unchanged.
C27_ExecPassesQuotedArgs ==
    \A c \in 1..Len(calls) :
        /\ Len(calls[c].argsTbl) = Len(args) - 1
        /\ \A i \in 1..(Len(args) - 1) :
              i <= Len(calls[c].argsTbl) =>
                  calls[c].argsTbl[i] =
                      IF HasWhitespace(args[i + 1]) THEN InQuotes(args[i + 1]) ELSE args[i + 1]

----------------------------------------------------------------------------
(* Existence check against execution (Spec) *)

\* Sandbox.Exec has run: CommandExists answered yes and the allow-list let
\* the name through
ExecutionReached == DOMAIN globals # {}

\* C28: whenever CommandExists(name) is true the execution of name that
\* follows on the same project finds the task and calls its function, so the
\* invocation never falls through to the built-in command handling.
C28_ExistenceAgreesWithExecution ==
    (ExecutionReached /\ Len(osArgs) > 0) =>
        /\ CommandExists(luaProject, osArgs[1]).exists
        /\ SandboxExecLookup(globals, osArgs[1]).found
        /\ mpc # "execute"
        /\ outcome \notin {"BuiltinOnly", "NotFound"}

----------------------------------------------------------------------------
(* Frame of PopStringParam (SpecParams) *)

\* C29: a PopStringParam call on a non-empty stack, whether it succeeds or
\* fails, removes the first remaining argument and leaves the others in
\* their order; a call on the empty stack leaves it empty and reports
\* found = false.
C29_PopRemovesFirstArgument ==
    [][/\ pstack # <<>> => (pstack' = Tail(pstack) /\ pRet'.found)
       /\ pstack = <<>> => (pstack' = <<>> /\ ~pRet'.found /\ pRet'.err = "nil")]_vars

\* C29 witness: three arguments were consumed from the left, the second by
\* a call that failed, and the fourth call found none
C29_Witness ==
    /\ pN = MaxPops /\ pstack = <<>> /\ pBefore = <<>>
    /\ ~pRet.found

====
